---- MODULE Spec2Model ----
(***************************************************************************)
(* A model of pressly/hydrate: the paramStore secret resolver, the         *)
(* reference grammar (hydrateKeyValue), the plain document walker          *)
(* (hydrateMapRecursively), the Kubernetes object adapter                  *)
(* (hydrateK8sObject) and the stream front end (Hydrate).                  *)
(*                                                                         *)
(* Go strings are sequences of one-character strings, so that prefix       *)
(* tests, trimming, path joining and the codecs are computed character by  *)
(* character as the Go code does.  Go's randomised map iteration is        *)
(* modelled by set-valued operators: an operator that walks a map returns  *)
(* the set of every outcome some iteration order can produce.              *)
(***************************************************************************)
EXTENDS Integers, Sequences, FiniteSets, TLC

VARIABLES
    basePath,   \* paramStore.path: the --path flag, "" when unset
    params,     \* what the Parameter Store holds: path -> value
    secrets,    \* paramStore.secrets: the cache, path -> value
    calls,      \* the ssm.GetParameter calls made so far, in order
    warns,      \* number of WARNING lines GetSecret wrote to os.Stderr
    notes,      \* number of progress lines the Kubernetes adapter wrote
    last,       \* the last API call: arguments, state before, results
    nops,       \* number of API calls made
    exited,     \* whether log.Fatal ended the process
    procs       \* the goroutines inside GetSecret: position and locals

vars ==
    <<basePath, params, secrets, calls, warns, notes, last, nops, exited, procs>>

\* Number of API calls made on one paramStore in a run.
MaxOps == 2

(***************************************************************************)
(* Strings                                                                 *)
(***************************************************************************)
Slash == <<"/">>
Dot == <<".">>
DotDot == <<".", ".">>
sDollars == <<"$", "$">>
sSecret == <<"$", "S", "E", "C", "R", "E", "T">>
sSecretColon == <<"$", "S", "E", "C", "R", "E", "T", ":">>

\* strings.HasPrefix
HasPrefix(s, prefix) ==
    /\ Len(prefix) <= Len(s)
    /\ SubSeq(s, 1, Len(prefix)) = prefix

\* strings.TrimPrefix
TrimPrefix(s, prefix) ==
    IF HasPrefix(s, prefix) THEN SubSeq(s, Len(prefix) + 1, Len(s)) ELSE s

\* The "/"-separated elements of s (empty elements included).
RECURSIVE SplitSlash(_)
SplitSlash(s) ==
    IF \A i \in 1..Len(s) : s[i] # "/" THEN <<s>>
    ELSE LET i == CHOOSE j \in 1..Len(s) :
                      s[j] = "/" /\ \A h \in 1..(j - 1) : s[h] # "/"
         IN <<SubSeq(s, 1, i - 1)>> \o SplitSlash(SubSeq(s, i + 1, Len(s)))

RECURSIVE JoinSlash(_)
JoinSlash(elems) ==
    IF elems = <<>> THEN <<>>
    ELSE IF Len(elems) = 1 THEN elems[1]
    ELSE elems[1] \o Slash \o JoinSlash(Tail(elems))

\* The element stack of filepath.Clean: "" and "." are dropped, ".." pops
\* the previous element, is dropped at the root and kept otherwise.
RECURSIVE CleanElems(_, _, _)
CleanElems(elems, stack, rooted) ==
    IF elems = <<>> THEN stack
    ELSE LET e == Head(elems)
             stack2 ==
                 IF e = <<>> \/ e = Dot THEN stack
                 ELSE IF e = DotDot
                      THEN IF stack # <<>> /\ stack[Len(stack)] # DotDot
                           THEN SubSeq(stack, 1, Len(stack) - 1)
                           ELSE IF rooted THEN stack
                           ELSE Append(stack, e)
                 ELSE Append(stack, e)
         IN CleanElems(Tail(elems), stack2, rooted)

\* filepath.Clean
Clean(s) ==
    IF s = <<>> THEN Dot
    ELSE LET rooted == s[1] = "/"
             out == (IF rooted THEN Slash ELSE <<>>)
                        \o JoinSlash(CleanElems(SplitSlash(s), <<>>, rooted))
         IN IF out = <<>> THEN Dot ELSE out

\* Join as plain concatenation, with no separator put between the elements.
JoinNoSeparator(a, b) == a \o b

\* filepath.Join(a, b): the non-empty elements joined by "/" and cleaned.
Join(a, b) ==
    IF a = <<>> /\ b = <<>> THEN <<>>
    ELSE IF a = <<>> THEN Clean(b)
    ELSE IF b = <<>> THEN Clean(a)
    ELSE Clean(a \o Slash \o b)

(***************************************************************************)
(* Bytes and encoding/base64                                               *)
(***************************************************************************)
\* The 256 byte values as one-character strings, byte b at index b + 1; a
\* byte outside printable ASCII, tab and newline, and the backquote, is
\* written "\xNN".
ByteChars ==
    <<"\\x00", "\\x01", "\\x02", "\\x03", "\\x04", "\\x05", "\\x06",
      "\\x07", "\\x08", "\t", "\n", "\\x0b", "\\x0c", "\\x0d", "\\x0e",
      "\\x0f", "\\x10", "\\x11", "\\x12", "\\x13", "\\x14", "\\x15",
      "\\x16", "\\x17", "\\x18", "\\x19", "\\x1a", "\\x1b", "\\x1c",
      "\\x1d", "\\x1e", "\\x1f", " ", "!", "\"", "#", "$", "%", "&", "'",
      "(", ")", "*", "+", ",", "-", ".", "/", "0", "1", "2", "3", "4", "5",
      "6", "7", "8", "9", ":", ";", "<", "=", ">", "?", "@", "A", "B", "C",
      "D", "E", "F", "G", "H", "I", "J", "K", "L", "M", "N", "O", "P", "Q",
      "R", "S", "T", "U", "V", "W", "X", "Y", "Z", "[", "\\", "]", "^",
      "_", "\\x60", "a", "b", "c", "d", "e", "f", "g", "h", "i", "j", "k", "l",
      "m", "n", "o", "p", "q", "r", "s", "t", "u", "v", "w", "x", "y", "z",
      "{", "|", "}", "~", "\\x7f", "\\x80", "\\x81", "\\x82", "\\x83",
      "\\x84", "\\x85", "\\x86", "\\x87", "\\x88", "\\x89", "\\x8a",
      "\\x8b", "\\x8c", "\\x8d", "\\x8e", "\\x8f", "\\x90", "\\x91",
      "\\x92", "\\x93", "\\x94", "\\x95", "\\x96", "\\x97", "\\x98",
      "\\x99", "\\x9a", "\\x9b", "\\x9c", "\\x9d", "\\x9e", "\\x9f",
      "\\xa0", "\\xa1", "\\xa2", "\\xa3", "\\xa4", "\\xa5", "\\xa6",
      "\\xa7", "\\xa8", "\\xa9", "\\xaa", "\\xab", "\\xac", "\\xad",
      "\\xae", "\\xaf", "\\xb0", "\\xb1", "\\xb2", "\\xb3", "\\xb4",
      "\\xb5", "\\xb6", "\\xb7", "\\xb8", "\\xb9", "\\xba", "\\xbb",
      "\\xbc", "\\xbd", "\\xbe", "\\xbf", "\\xc0", "\\xc1", "\\xc2",
      "\\xc3", "\\xc4", "\\xc5", "\\xc6", "\\xc7", "\\xc8", "\\xc9",
      "\\xca", "\\xcb", "\\xcc", "\\xcd", "\\xce", "\\xcf", "\\xd0",
      "\\xd1", "\\xd2", "\\xd3", "\\xd4", "\\xd5", "\\xd6", "\\xd7",
      "\\xd8", "\\xd9", "\\xda", "\\xdb", "\\xdc", "\\xdd", "\\xde",
      "\\xdf", "\\xe0", "\\xe1", "\\xe2", "\\xe3", "\\xe4", "\\xe5",
      "\\xe6", "\\xe7", "\\xe8", "\\xe9", "\\xea", "\\xeb", "\\xec",
      "\\xed", "\\xee", "\\xef", "\\xf0", "\\xf1", "\\xf2", "\\xf3",
      "\\xf4", "\\xf5", "\\xf6", "\\xf7", "\\xf8", "\\xf9", "\\xfa",
      "\\xfb", "\\xfc", "\\xfd", "\\xfe", "\\xff">>

Chr(b) == ByteChars[b + 1]
Ord == [c \in {ByteChars[i] : i \in 1..256} |->
            (CHOOSE i \in 1..256 : ByteChars[i] = c) - 1]

\* The alphabet of base64.StdEncoding, digit d at index d + 1.
B64Chars ==
    <<"A", "B", "C", "D", "E", "F", "G", "H", "I", "J", "K", "L", "M", "N",
      "O", "P", "Q", "R", "S", "T", "U", "V", "W", "X", "Y", "Z", "a", "b",
      "c", "d", "e", "f", "g", "h", "i", "j", "k", "l", "m", "n", "o", "p",
      "q", "r", "s", "t", "u", "v", "w", "x", "y", "z", "0", "1", "2", "3",
      "4", "5", "6", "7", "8", "9", "+", "/">>

B64Digit == [c \in {B64Chars[i] : i \in 1..64} |->
                 (CHOOSE i \in 1..64 : B64Chars[i] = c) - 1]

\* base64.StdEncoding.EncodeToString
RECURSIVE B64Encode(_)
B64Encode(s) ==
    IF s = <<>> THEN <<>>
    ELSE IF Len(s) = 1
    THEN LET n == Ord[s[1]] * 65536
         IN <<B64Chars[(n \div 262144) + 1], B64Chars[((n \div 4096) % 64) + 1],
              "=", "=">>
    ELSE IF Len(s) = 2
    THEN LET n == Ord[s[1]] * 65536 + Ord[s[2]] * 256
         IN <<B64Chars[(n \div 262144) + 1], B64Chars[((n \div 4096) % 64) + 1],
              B64Chars[((n \div 64) % 64) + 1], "=">>
    ELSE LET n == Ord[s[1]] * 65536 + Ord[s[2]] * 256 + Ord[s[3]]
         IN <<B64Chars[(n \div 262144) + 1], B64Chars[((n \div 4096) % 64) + 1],
              B64Chars[((n \div 64) % 64) + 1], B64Chars[(n % 64) + 1]>>
                \o B64Encode(SubSeq(s, 4, Len(s)))

\* The input with the "\r" and "\n" characters the decoder skips removed.
RECURSIVE StripNewlines(_)
StripNewlines(s) ==
    IF s = <<>> THEN <<>>
    ELSE IF Head(s) \in {"\n", "\\x0d"} THEN StripNewlines(Tail(s))
    ELSE <<Head(s)>> \o StripNewlines(Tail(s))

\* Whether the quanta of four characters are well formed: padding only at
\* the end of the last quantum, "xx==" or "xxx=".
RECURSIVE B64WellFormed(_)
B64WellFormed(s) ==
    IF s = <<>> THEN TRUE
    ELSE IF Len(s) < 4 THEN FALSE
    ELSE IF Len(s) = 4
    THEN /\ s[1] \in DOMAIN B64Digit /\ s[2] \in DOMAIN B64Digit
         /\ \/ s[3] \in DOMAIN B64Digit /\ (s[4] \in DOMAIN B64Digit \/ s[4] = "=")
            \/ s[3] = "=" /\ s[4] = "="
    ELSE /\ \A i \in 1..4 : s[i] \in DOMAIN B64Digit
         /\ B64WellFormed(SubSeq(s, 5, Len(s)))

\* The bytes of well-formed quanta; the bits left over in a padded quantum
\* are dropped unchecked (StdEncoding is not strict).
RECURSIVE B64Bytes(_)
B64Bytes(s) ==
    IF s = <<>> THEN <<>>
    ELSE LET d3 == IF s[3] = "=" THEN 0 ELSE B64Digit[s[3]]
             d4 == IF s[4] = "=" THEN 0 ELSE B64Digit[s[4]]
             n == B64Digit[s[1]] * 262144 + B64Digit[s[2]] * 4096 + d3 * 64 + d4
             bytes == <<Chr(n \div 65536), Chr((n \div 256) % 256), Chr(n % 256)>>
             kept == IF s[3] = "=" THEN 1 ELSE IF s[4] = "=" THEN 2 ELSE 3
         IN SubSeq(bytes, 1, kept) \o B64Bytes(SubSeq(s, 5, Len(s)))

\* base64.StdEncoding.DecodeString
B64Decode(s) ==
    LET t == StripNewlines(s)
    IN IF B64WellFormed(t) THEN [ok |-> TRUE, val |-> B64Bytes(t)]
       ELSE [ok |-> FALSE, val |-> <<>>]

(***************************************************************************)
(* Errors: the root cause with the contexts errors.Wrapf puts around it,   *)
(* outermost first.                                                        *)
(***************************************************************************)
Nil == [kind |-> "nil", key |-> <<>>, wraps |-> <<>>]
Errorf(kind, key) == [kind |-> kind, key |-> key, wraps |-> <<>>]
Wrapf(err, what, key) ==
    [err EXCEPT !.wraps = <<[what |-> what, key |-> key]>> \o @]

(***************************************************************************)
(* The provider (AWS SSM GetParameter) and the paramStore                  *)
(***************************************************************************)
\* ssm.GetParameter answers for the parameters it holds and fails otherwise.
ProviderHas(path) == path \in DOMAIN params

\* stringMap.Store
Store(m, key, value) ==
    [p \in DOMAIN m \cup {key} |-> IF p = key THEN value ELSE m[p]]

\* The resolver state threaded through a call: the cache, the provider
\* calls made so far (in order) and the warnings written to stderr.
StoreState ==
    [secrets |-> secrets, calls |-> calls, warns |-> warns, notes |-> notes]

\* NormalizeKey joining the base path onto absolute keys as well.
NormalizeKeyAlwaysJoin(key) ==
    IF basePath = <<>>
    THEN [ok |-> HasPrefix(key, Slash), path |-> key, warned |-> FALSE]
    ELSE [ok |-> TRUE, path |-> Join(basePath, key),
          warned |-> ~HasPrefix(key, basePath)]

\* paramStore.GetSecret, lines 35-43: (ok, path actually looked up, warned).
NormalizeKey(key) ==
    IF ~HasPrefix(key, Slash)
    THEN IF basePath = <<>>
         THEN [ok |-> FALSE, path |-> key, warned |-> FALSE]
         ELSE [ok |-> TRUE, path |-> Join(basePath, key),
               warned |-> ~HasPrefix(key, basePath)]
    ELSE [ok |-> TRUE, path |-> key, warned |-> FALSE]

\* GetSecret without the cache check of lines 45-47.
GetSecretNoCache(st, key) ==
    LET fetch(n) ==
            LET st1 == [st EXCEPT !.warns = @ + (IF n.warned THEN 1 ELSE 0)]
                st2 == [st EXCEPT !.warns = @ + (IF n.warned THEN 1 ELSE 0),
                                  !.calls = Append(@, n.path)]
            IN IF ~n.ok
               THEN [st |-> st, val |-> <<>>, err |-> Errorf("config", key)]
               ELSE IF ~ProviderHas(n.path)
               THEN [st |-> st2, val |-> <<>>,
                     err |-> Wrapf(Errorf("provider", n.path), "fetch", n.path)]
               ELSE [st |-> [st2 EXCEPT !.secrets =
                                 Store(@, n.path, params[n.path])],
                     val |-> params[n.path], err |-> Nil]
    IN fetch(NormalizeKey(key))

\* paramStore.GetSecret: fetch is the body after the key is normalised, st1
\* the state after the warning, st2 the state after the provider call.
GetSecret(st, key) ==
    LET fetch(n) ==
            LET st1 == [st EXCEPT !.warns = @ + (IF n.warned THEN 1 ELSE 0)]
                st2 == [st EXCEPT !.warns = @ + (IF n.warned THEN 1 ELSE 0),
                                  !.calls = Append(@, n.path)]
            IN IF ~n.ok
               THEN [st |-> st, val |-> <<>>, err |-> Errorf("config", key)]
               ELSE IF n.path \in DOMAIN st.secrets
               THEN [st |-> st1, val |-> st.secrets[n.path], err |-> Nil]
               ELSE IF ~ProviderHas(n.path)
               THEN [st |-> st2, val |-> <<>>,
                     err |-> Wrapf(Errorf("provider", n.path), "fetch", n.path)]
               ELSE [st |-> [st2 EXCEPT !.secrets =
                                 Store(@, n.path, params[n.path])],
                     val |-> params[n.path], err |-> Nil]
    IN fetch(NormalizeKey(key))

(***************************************************************************)
(* Documents: map[string]interface{} trees.  A node is a string, a number, *)
(* a boolean, null, a list ([]interface{}) or a map.                       *)
(***************************************************************************)
Str(s) == [t |-> "str", v |-> s]
Num(d) == [t |-> "num", v |-> d]
Bool(b) == [t |-> "bool", v |-> b]
Null == [t |-> "null", v |-> <<>>]
List(items) == [t |-> "list", l |-> items]
Map(m) == [t |-> "map", m |-> m]
EmptyMap == <<>>

IsStr(n) == n.t = "str"
IsMap(n) == n.t = "map"

(***************************************************************************)
(* encoding/json, restricted to objects, arrays, strings, integers         *)
(* written in digits, true, false and null; string escapes are those the   *)
(* encoder itself writes for ASCII text.                                   *)
(***************************************************************************)
sTrue == <<"t", "r", "u", "e">>
sFalse == <<"f", "a", "l", "s", "e">>
sNull == <<"n", "u", "l", "l">>
Digits == {"0", "1", "2", "3", "4", "5", "6", "7", "8", "9"}
HexChars ==
    <<"0", "1", "2", "3", "4", "5", "6", "7", "8", "9", "a", "b", "c", "d",
      "e", "f">>
HexDigit == [c \in {HexChars[i] : i \in 1..16} |->
                 (CHOOSE i \in 1..16 : HexChars[i] = c) - 1]

\* Byte-wise lexicographic order of strings (sort.Strings).
RECURSIVE StrLess(_, _)
StrLess(a, b) ==
    IF b = <<>> THEN FALSE
    ELSE IF a = <<>> THEN TRUE
    ELSE IF Ord[Head(a)] # Ord[Head(b)] THEN Ord[Head(a)] < Ord[Head(b)]
    ELSE StrLess(Tail(a), Tail(b))

\* The strings of a set in ascending order.
RECURSIVE SortStrings(_)
SortStrings(set) ==
    IF set = {} THEN <<>>
    ELSE LET least == CHOOSE a \in set : \A b \in set \ {a} : StrLess(a, b)
         IN <<least>> \o SortStrings(set \ {least})

\* The escape the encoder writes for one character of a string (HTML
\* escaping is on by default in json.Encoder).
JSONEscape(c) ==
    IF c = "\"" THEN <<"\\", "\"">>
    ELSE IF c = "\\" THEN <<"\\", "\\">>
    ELSE IF c = "\n" THEN <<"\\", "n">>
    ELSE IF c = "\t" THEN <<"\\", "t">>
    ELSE IF c \in {"<", ">", "&"}
    THEN <<"\\", "u", "0", "0", HexChars[(Ord[c] \div 16) + 1],
           HexChars[(Ord[c] % 16) + 1]>>
    ELSE <<c>>

RECURSIVE JSONEscapeAll(_)
JSONEscapeAll(s) ==
    IF s = <<>> THEN <<>> ELSE JSONEscape(Head(s)) \o JSONEscapeAll(Tail(s))

JSONString(s) == <<"\"">> \o JSONEscapeAll(s) \o <<"\"">>

\* json.Marshal of a node: compact, object keys sorted.
RECURSIVE JSONNode(_)
RECURSIVE JSONMembers(_, _)
RECURSIVE JSONElements(_)
JSONMembers(m, keys) ==
    IF keys = <<>> THEN <<>>
    ELSE JSONString(Head(keys)) \o <<":">> \o JSONNode(m[Head(keys)])
             \o (IF Len(keys) > 1 THEN <<",">> ELSE <<>>)
             \o JSONMembers(m, Tail(keys))
JSONElements(items) ==
    IF items = <<>> THEN <<>>
    ELSE JSONNode(Head(items)) \o (IF Len(items) > 1 THEN <<",">> ELSE <<>>)
             \o JSONElements(Tail(items))
JSONNode(n) ==
    IF n.t = "str" THEN JSONString(n.v)
    ELSE IF n.t \in {"num", "bool"} THEN n.v
    ELSE IF n.t = "null" THEN sNull
    ELSE IF n.t = "list" THEN <<"[">> \o JSONElements(n.l) \o <<"]">>
    ELSE <<"{">> \o JSONMembers(n.m, SortStrings(DOMAIN n.m)) \o <<"}">>

\* json.Encoder.Encode: the value followed by a newline.
JSONEncode(data) == JSONNode(Map(data)) \o <<"\n">>

\* The parser: each step returns (ok, val, pos), pos being the index of the
\* first character after what was read.
ParseFail == [ok |-> FALSE, val |-> Null, pos |-> 0]
Parsed(val, pos) == [ok |-> TRUE, val |-> val, pos |-> pos]
At(s, i) == IF i <= Len(s) THEN s[i] ELSE "\\x00"
StartsAt(s, i, lit) ==
    i + Len(lit) - 1 <= Len(s) /\ SubSeq(s, i, i + Len(lit) - 1) = lit

RECURSIVE SkipSpace(_, _)
SkipSpace(s, i) ==
    IF i <= Len(s) /\ s[i] \in {" ", "\n", "\t", "\\x0d"}
    THEN SkipSpace(s, i + 1) ELSE i

\* The characters of a string literal from i (after the opening quote).
RECURSIVE JSONStringBody(_, _, _)
JSONStringBody(s, i, acc) ==
    IF i > Len(s) THEN ParseFail
    ELSE IF s[i] = "\"" THEN Parsed(acc, i + 1)
    ELSE IF s[i] = "\\"
    THEN LET e == At(s, i + 1)
         IN IF e \in {"\"", "\\", "/"}
            THEN JSONStringBody(s, i + 2, Append(acc, e))
            ELSE IF e = "n" THEN JSONStringBody(s, i + 2, Append(acc, "\n"))
            ELSE IF e = "t" THEN JSONStringBody(s, i + 2, Append(acc, "\t"))
            ELSE IF /\ e = "u" /\ At(s, i + 2) = "0" /\ At(s, i + 3) = "0"
                    /\ At(s, i + 4) \in {"0", "1", "2", "3", "4", "5", "6", "7"}
                    /\ At(s, i + 5) \in DOMAIN HexDigit
            THEN JSONStringBody(s, i + 6,
                     Append(acc, Chr(HexDigit[At(s, i + 4)] * 16
                                         + HexDigit[At(s, i + 5)])))
            ELSE ParseFail
    ELSE IF Ord[s[i]] < 32 THEN ParseFail
    ELSE JSONStringBody(s, i + 1, Append(acc, s[i]))

RECURSIVE DigitsEnd(_, _)
DigitsEnd(s, i) == IF At(s, i) \in Digits THEN DigitsEnd(s, i + 1) ELSE i

RECURSIVE JSONValue(_, _)
RECURSIVE JSONObject(_, _, _)
RECURSIVE JSONArray(_, _, _)

\* The members of an object from i (after "{" or ","); a repeated key
\* keeps its last value.
JSONObject(s, i0, acc) ==
    LET i == SkipSpace(s, i0)
    IN IF At(s, i) = "}" /\ acc = EmptyMap THEN Parsed(Map(acc), i + 1)
       ELSE IF At(s, i) # "\"" THEN ParseFail
       ELSE LET k == JSONStringBody(s, i + 1, <<>>)
                c == SkipSpace(s, k.pos)
            IN IF ~k.ok \/ At(s, c) # ":" THEN ParseFail
               ELSE LET v == JSONValue(s, c + 1)
                        e == SkipSpace(s, v.pos)
                        acc2 == (k.val :> v.val) @@ acc
                    IN IF ~v.ok THEN ParseFail
                       ELSE IF At(s, e) = "," THEN JSONObject(s, e + 1, acc2)
                       ELSE IF At(s, e) = "}" THEN Parsed(Map(acc2), e + 1)
                       ELSE ParseFail

JSONArray(s, i0, acc) ==
    LET i == SkipSpace(s, i0)
    IN IF At(s, i) = "]" /\ acc = <<>> THEN Parsed(List(acc), i + 1)
       ELSE LET v == JSONValue(s, i)
                e == SkipSpace(s, v.pos)
            IN IF ~v.ok THEN ParseFail
               ELSE IF At(s, e) = "," THEN JSONArray(s, e + 1, Append(acc, v.val))
               ELSE IF At(s, e) = "]" THEN Parsed(List(Append(acc, v.val)), e + 1)
               ELSE ParseFail

JSONValue(s, i0) ==
    LET i == SkipSpace(s, i0)
        c == At(s, i)
    IN IF c = "{" THEN JSONObject(s, i + 1, EmptyMap)
       ELSE IF c = "[" THEN JSONArray(s, i + 1, <<>>)
       ELSE IF c = "\""
       THEN LET r == JSONStringBody(s, i + 1, <<>>)
            IN IF r.ok THEN Parsed(Str(r.val), r.pos) ELSE ParseFail
       ELSE IF StartsAt(s, i, sTrue) THEN Parsed(Bool(sTrue), i + 4)
       ELSE IF StartsAt(s, i, sFalse) THEN Parsed(Bool(sFalse), i + 5)
       ELSE IF StartsAt(s, i, sNull) THEN Parsed(Null, i + 4)
       ELSE IF c \in Digits /\ (c # "0" \/ At(s, i + 1) \notin Digits)
       THEN Parsed(Num(SubSeq(s, i, DigitsEnd(s, i) - 1)), DigitsEnd(s, i))
       ELSE ParseFail

\* json.Decoder.Decode into a map[string]interface{}: the first value of
\* the text.  An object gives the map, null gives the nil map, any other
\* value and malformed text give an error.
JSONDecode(s) ==
    LET r == JSONValue(s, 1)
    IN IF r.ok /\ r.val.t = "map" THEN [ok |-> TRUE, nil |-> FALSE, data |-> r.val.m]
       ELSE IF r.ok /\ r.val.t = "null"
       THEN [ok |-> TRUE, nil |-> TRUE, data |-> EmptyMap]
       ELSE [ok |-> FALSE, nil |-> FALSE, data |-> EmptyMap]

(***************************************************************************)
(* gopkg.in/yaml.v3, restricted to streams of documents that are block     *)
(* mappings, nested by indentation, of one-line scalars: strings (plain,   *)
(* single- or double-quoted without escapes), integers written in digits,  *)
(* booleans and nulls.                                                     *)
(***************************************************************************)
sDocSep == <<"-", "-", "-">>
sEmptyFlow == <<"{", "}">>
IsInteger(s) ==
    /\ s # <<>>
    /\ \A i \in 1..Len(s) : s[i] \in Digits
    /\ (Len(s) > 1 => s[1] # "0")

\* resolve: the node a plain scalar stands for.
YAMLResolve(s) ==
    IF s \in {<<>>, <<"~">>, <<"n", "u", "l", "l">>, <<"N", "u", "l", "l">>, <<"N", "U", "L", "L">>}
    THEN Null
    ELSE IF s \in {<<"t", "r", "u", "e">>, <<"T", "r", "u", "e">>, <<"T", "R", "U", "E">>}
    THEN Bool(sTrue)
    ELSE IF s \in {<<"f", "a", "l", "s", "e">>, <<"F", "a", "l", "s", "e">>,
              <<"F", "A", "L", "S", "E">>}
    THEN Bool(sFalse)
    ELSE IF IsInteger(s) THEN Num(s)
    ELSE Str(s)

\* Whether the emitter may write the string as a plain scalar of a block
\* mapping.
YAMLPlainAllowed(s) ==
    /\ s # <<>>
    /\ s[1] \notin {" ", "#", ",", "[", "]", "{", "}", "&", "*", "!", "|", ">", "'", "\"",
                   "%", "@", "\\x60"}
    /\ s[Len(s)] \notin {" ", ":"}
    /\ (s[1] \in {"-", "?", ":"} => Len(s) > 1 /\ s[2] # " ")
    /\ \A i \in 1..Len(s) : Ord[s[i]] >= 32 /\ Ord[s[i]] < 127
    /\ \A i \in 1..(Len(s) - 1) :
           ~(s[i] = ":" /\ s[i + 1] = " ") /\ ~(s[i] = " " /\ s[i + 1] = "#")

\* The encoder's style for a string: double-quoted when the plain form
\* would resolve to another type or is a YAML 1.1 boolean (isOldBool),
\* single-quoted when the plain form is not allowed, plain otherwise.
YAMLString(s) ==
    IF \/ YAMLResolve(s) # Str(s)
       \/ s \in
         {<<"y">>, <<"Y">>, <<"y", "e", "s">>, <<"Y", "e", "s">>,
          <<"Y", "E", "S">>, <<"o", "n">>, <<"O", "n">>, <<"O", "N">>, <<"n">>,
          <<"N">>, <<"n", "o">>, <<"N", "o">>, <<"N", "O">>, <<"o", "f", "f">>,
          <<"O", "f", "f">>, <<"O", "F", "F">>}
    THEN <<"\"">> \o s \o <<"\"">>
    ELSE IF ~YAMLPlainAllowed(s) THEN <<"'">> \o s \o <<"'">>
    ELSE s

\* The lines of a block mapping at the given indentation (4 per level).
RECURSIVE YAMLBlock(_, _, _)
YAMLBlock(m, keys, indent) ==
    IF keys = <<>> THEN <<>>
    ELSE LET k == Head(keys)
             n == m[k]
             value ==
                 IF n.t = "str" THEN <<" ">> \o YAMLString(n.v) \o <<"\n">>
                 ELSE IF n.t \in {"num", "bool"} THEN <<" ">> \o n.v \o <<"\n">>
                 ELSE IF n.t = "null" THEN <<" ">> \o sNull \o <<"\n">>
                 ELSE IF n.t = "map" /\ n.m # EmptyMap
                 THEN <<"\n">> \o YAMLBlock(n.m, SortStrings(DOMAIN n.m), indent + 4)
                 ELSE <<" ">> \o sEmptyFlow \o <<"\n">>
         IN [i \in 1..indent |-> " "] \o YAMLString(k) \o <<":">> \o value
                \o YAMLBlock(m, Tail(keys), indent)

\* yaml.Encoder.Encode of one document; every document after the first
\* is preceded by the "---" line.
YAMLEncode(data, first) ==
    (IF first THEN <<>> ELSE sDocSep \o <<"\n">>)
        \o (IF data = EmptyMap THEN sEmptyFlow \o <<"\n">>
            ELSE YAMLBlock(data, SortStrings(DOMAIN data), 0))

\* The lines of a text, without their newlines.
RECURSIVE SplitLines(_)
SplitLines(s) ==
    IF s = <<>> THEN <<>>
    ELSE IF \A i \in 1..Len(s) : s[i] # "\n" THEN <<s>>
    ELSE LET i == CHOOSE j \in 1..Len(s) :
                      s[j] = "\n" /\ \A h \in 1..(j - 1) : s[h] # "\n"
         IN <<SubSeq(s, 1, i - 1)>> \o SplitLines(SubSeq(s, i + 1, Len(s)))

RECURSIVE Indent(_)
Indent(line) ==
    IF line # <<>> /\ Head(line) = " " THEN 1 + Indent(Tail(line)) ELSE 0

RECURSIVE TrimRight(_)
TrimRight(s) ==
    IF s # <<>> /\ s[Len(s)] = " " THEN TrimRight(SubSeq(s, 1, Len(s) - 1))
    ELSE s

\* The text after the closing quote q of a quoted scalar starting at 1, or
\* failure.
YAMLQuoted(s) ==
    LET q == s[1]
        ends == {j \in 2..Len(s) : s[j] = q}
    IN IF ends = {} \/ (q = "\"" /\ \E j \in 2..Len(s) : s[j] = "\\")
       THEN [ok |-> FALSE, val |-> <<>>, rest |-> <<>>]
       ELSE LET j == CHOOSE e \in ends : \A f \in ends : e <= f
            IN [ok |-> TRUE, val |-> SubSeq(s, 2, j - 1),
                rest |-> SubSeq(s, j + 1, Len(s))]

\* A scalar in value position: its node, or failure.
YAMLScalar(s) ==
    IF s # <<>> /\ s[1] \in {"\"", "'"}
    THEN LET r == YAMLQuoted(s)
         IN IF r.ok /\ r.rest = <<>> THEN Parsed(Str(r.val), 0) ELSE ParseFail
    ELSE IF s = sEmptyFlow THEN Parsed(Map(EmptyMap), 0)
    ELSE IF s # <<>> /\ ~YAMLPlainAllowed(s) THEN ParseFail
    ELSE Parsed(YAMLResolve(s), 0)

\* A line "key: value" or "key:" without its indentation: the key and the
\* text of the value, or failure when the line is no mapping entry.
YAMLEntry(line) ==
    LET fail == [ok |-> FALSE, key |-> <<>>, rest |-> <<>>]
        split(key, from) ==
            IF from > Len(line) THEN [ok |-> TRUE, key |-> key, rest |-> <<>>]
            ELSE IF line[from] = " "
            THEN [ok |-> TRUE, key |-> key,
                  rest |-> SubSeq(line, from + 1 + Indent(SubSeq(line, from + 1, Len(line))),
                                  Len(line))]
            ELSE fail
    IN IF line[1] \in {"\"", "'"}
       THEN LET r == YAMLQuoted(line)
            IN IF r.ok /\ r.rest # <<>> /\ r.rest[1] = ":"
               THEN split(r.val, Len(r.val) + 4) ELSE fail
       ELSE LET colons == {j \in 1..Len(line) :
                               line[j] = ":" /\ (j = Len(line) \/ line[j + 1] = " ")}
            IN IF colons = {} THEN fail
               ELSE LET j == CHOOSE c \in colons : \A d \in colons : c <= d
                        key == SubSeq(line, 1, j - 1)
                    IN IF key = <<>> \/ ~YAMLPlainAllowed(key) THEN fail
                       ELSE split(key, j + 1)

\* The block mapping made of the lines from i on that are indented by
\* exactly indent: (ok, val, pos), pos being the first line not read.
RECURSIVE YAMLMapping(_, _, _, _)
YAMLMapping(lines, i, indent, acc) ==
    IF i > Len(lines) \/ Indent(lines[i]) < indent THEN Parsed(Map(acc), i)
    ELSE IF Indent(lines[i]) > indent THEN ParseFail
    ELSE LET e == YAMLEntry(SubSeq(lines[i], indent + 1, Len(lines[i])))
         IN IF ~e.ok \/ e.key \in DOMAIN acc THEN ParseFail
            ELSE IF e.rest = <<>> /\ i < Len(lines) /\ Indent(lines[i + 1]) > indent
            THEN LET sub == YAMLMapping(lines, i + 1, Indent(lines[i + 1]), EmptyMap)
                 IN IF ~sub.ok THEN ParseFail
                    ELSE YAMLMapping(lines, sub.pos, indent,
                                     (e.key :> sub.val) @@ acc)
            ELSE LET v == YAMLScalar(e.rest)
                 IN IF ~v.ok THEN ParseFail
                    ELSE YAMLMapping(lines, i + 1, indent, (e.key :> v.val) @@ acc)

\* The lines of lines without the blank ones.
RECURSIVE DropBlank(_)
DropBlank(lines) ==
    IF lines = <<>> THEN <<>>
    ELSE IF TrimRight(Head(lines)) = <<>> THEN DropBlank(Tail(lines))
    ELSE <<TrimRight(Head(lines))>> \o DropBlank(Tail(lines))

\* The documents of a stream: the runs of lines between "---" lines.  A
\* "---" line that opens the stream starts its first document.
RECURSIVE YAMLSplitDocs(_, _, _)
YAMLSplitDocs(lines, cur, explicit) ==
    IF lines = <<>>
    THEN IF cur = <<>> /\ ~explicit THEN <<>> ELSE <<cur>>
    ELSE IF Head(lines) = sDocSep
    THEN (IF cur = <<>> /\ ~explicit THEN <<>> ELSE <<cur>>)
             \o YAMLSplitDocs(Tail(lines), <<>>, TRUE)
    ELSE YAMLSplitDocs(Tail(lines), Append(cur, Head(lines)), explicit)

YAMLDocuments(s) == YAMLSplitDocs(DropBlank(SplitLines(s)), <<>>, FALSE)

\* yaml.Decoder.Decode of one document into a map[string]interface{}: a
\* mapping gives the map, an empty document the nil map, and anything else
\* (a scalar, malformed lines) an error.
YAMLDecode(lines) ==
    IF lines = <<>> THEN [ok |-> TRUE, nil |-> TRUE, data |-> EmptyMap]
    ELSE LET r == YAMLMapping(lines, 1, 0, EmptyMap)
         IN IF r.ok /\ r.pos > Len(lines)
            THEN [ok |-> TRUE, nil |-> FALSE, data |-> r.val.m]
            ELSE [ok |-> FALSE, nil |-> FALSE, data |-> EmptyMap]

(***************************************************************************)
(* github.com/BurntSushi/toml, restricted to a root table of one-line      *)
(* "key = value" pairs whose values are basic strings, integers written in *)
(* digits and booleans.  Sub-tables, arrays and the other value forms are  *)
(* outside the modelled subset and no input of the model uses them.        *)
(***************************************************************************)
TOMLBareChars ==
    {Chr(b) : b \in (48..57) \cup (65..90) \cup (97..122)} \cup {"_", "-"}

\* A basic string between double quotes.
RECURSIVE TOMLEscape(_)
TOMLEscape(s) ==
    IF s = <<>> THEN <<>>
    ELSE (CASE Head(s) = "\"" -> <<"\\", "\"">>
            [] Head(s) = "\\" -> <<"\\", "\\">>
            [] Head(s) = "\n" -> <<"\\", "n">>
            [] Head(s) = "\t" -> <<"\\", "t">>
            [] OTHER -> <<Head(s)>>) \o TOMLEscape(Tail(s))

TOMLString(s) == <<"\"">> \o TOMLEscape(s) \o <<"\"">>

RECURSIVE TOMLPairs(_, _)
TOMLPairs(m, keys) ==
    IF keys = <<>> THEN <<>>
    ELSE LET k == Head(keys)
             n == m[k]
         IN (IF k # <<>> /\ \A i \in 1..Len(k) : k[i] \in TOMLBareChars
             THEN k ELSE TOMLString(k)) \o <<" ", "=", " ">>
                \o (IF n.t = "str" THEN TOMLString(n.v) ELSE n.v) \o <<"\n">>
                \o TOMLPairs(m, Tail(keys))

\* toml.Encoder.Encode: the keys in sorted order, one pair per line.
TOMLEncode(data) == TOMLPairs(data, SortStrings(DOMAIN data))

\* The basic string opening at s[i]: (ok, val, pos) with pos after the
\* closing quote.
RECURSIVE TOMLStringBody(_, _, _)
TOMLStringBody(s, i, acc) ==
    IF i > Len(s) THEN ParseFail
    ELSE IF s[i] = "\"" THEN Parsed(acc, i + 1)
    ELSE IF s[i] = "\\"
    THEN IF i = Len(s) THEN ParseFail
         ELSE IF s[i + 1] \in {"\"", "\\"}
         THEN TOMLStringBody(s, i + 2, Append(acc, s[i + 1]))
         ELSE IF s[i + 1] = "n" THEN TOMLStringBody(s, i + 2, Append(acc, "\n"))
         ELSE IF s[i + 1] = "t" THEN TOMLStringBody(s, i + 2, Append(acc, "\t"))
         ELSE ParseFail
    ELSE TOMLStringBody(s, i + 1, Append(acc, s[i]))

\* One line "key = value": (ok, key, val).
TOMLPair(line) ==
    LET fail == [ok |-> FALSE, key |-> <<>>, val |-> Null]
        key == IF line[1] = "\"" THEN TOMLStringBody(line, 2, <<>>)
               ELSE LET n == CHOOSE j \in 0..Len(line) :
                                 /\ \A h \in 1..j : line[h] \in TOMLBareChars
                                 /\ (j < Len(line) => line[j + 1] \notin TOMLBareChars)
                    IN IF n = 0 THEN ParseFail ELSE Parsed(SubSeq(line, 1, n), n + 1)
        eq == SkipSpace(line, key.pos)
        at == SkipSpace(line, eq + 1)
        text == SubSeq(line, at, Len(line))
    IN IF ~key.ok \/ At(line, eq) # "=" \/ text = <<>> THEN fail
       ELSE IF text[1] = "\""
       THEN LET v == TOMLStringBody(text, 2, <<>>)
            IN IF v.ok /\ v.pos > Len(text)
               THEN [ok |-> TRUE, key |-> key.val, val |-> Str(v.val)] ELSE fail
       ELSE IF text = sTrue \/ text = sFalse
       THEN [ok |-> TRUE, key |-> key.val, val |-> Bool(text)]
       ELSE IF IsInteger(text)
       THEN [ok |-> TRUE, key |-> key.val, val |-> Num(text)]
       ELSE fail

RECURSIVE TOMLTable(_, _)
TOMLTable(lines, acc) ==
    IF lines = <<>> THEN [ok |-> TRUE, nil |-> FALSE, data |-> acc]
    ELSE LET e == TOMLPair(Head(lines))
         IN IF ~e.ok \/ e.key \in DOMAIN acc
            THEN [ok |-> FALSE, nil |-> FALSE, data |-> EmptyMap]
            ELSE TOMLTable(Tail(lines), (e.key :> e.val) @@ acc)

\* toml.Unmarshal into a map[string]interface{}; a redefined key is an
\* error.
TOMLDecode(s) ==
    LET lines == DropBlank(SplitLines(s))
    IN TOMLTable([i \in 1..Len(lines) |->
                     SubSeq(lines[i], Indent(lines[i]) + 1, Len(lines[i]))],
                 EmptyMap)

\* A result of a walk: the (mutated) document, the resolver state after it,
\* the returned error, and whether the process was ended by log.Fatal.
Outcome(data, st, err, fatal) ==
    [data |-> data, st |-> st, err |-> err, fatal |-> fatal]

\* hydrateKeyValue matching the "$SECRET" prefix without the colon.
hydrateKeyValueLoosePrefix(st, key, value) ==
    LET secret(r) ==
            IF r.err # Nil
            THEN [st |-> r.st, hit |-> FALSE, val |-> <<>>,
                  err |-> Wrapf(r.err, "keyvalue", key \o <<"=">> \o value)]
            ELSE [st |-> r.st, hit |-> TRUE, val |-> r.val, err |-> Nil]
    IN IF value = sDollars \/ value = sSecret
       THEN secret(GetSecret(st, key))
       ELSE IF HasPrefix(value, sSecret)
       THEN secret(GetSecret(st, SubSeq(value, 9, Len(value))))
       ELSE [st |-> st, hit |-> FALSE, val |-> <<>>, err |-> Nil]

\* paramStore.hydrateKeyValue: hit is "secret != nil"; secret is what is
\* made of GetSecret's result.
hydrateKeyValue(st, key, value) ==
    LET secret(r) ==
            IF r.err # Nil
            THEN [st |-> r.st, hit |-> FALSE, val |-> <<>>,
                  err |-> Wrapf(r.err, "keyvalue", key \o <<"=">> \o value)]
            ELSE [st |-> r.st, hit |-> TRUE, val |-> r.val, err |-> Nil]
    IN IF value = sDollars \/ value = sSecret
       THEN secret(GetSecret(st, key))
       ELSE IF HasPrefix(value, sSecretColon)
       THEN secret(GetSecret(st, TrimPrefix(value, sSecretColon)))
       ELSE [st |-> st, hit |-> FALSE, val |-> <<>>, err |-> Nil]

\* paramStore.hydrateMapRecursively.  "range data" visits the keys in an
\* unspecified order: rangeMap returns the outcomes of visiting the keys of
\* todo in every order, stopping at the first error.
RECURSIVE hydrateMapRecursively(_, _, _)
RECURSIVE rangeMap(_, _, _, _)
RECURSIVE visitEntry(_, _, _, _)

\* The loop body descending into lists too: a marker string heading a list
\* is resolved like a map entry.
visitEntryIntoLists(data, path, st, key) ==
    LET v == data[key]
        put(r) ==
            IF r.err # Nil
            THEN {Outcome(data, r.st,
                          Wrapf(r.err, "field", JoinSlash(Append(path, key))),
                          FALSE)}
            ELSE IF r.hit
            THEN {Outcome([data EXCEPT ![key] = Str(r.val)], r.st, Nil, FALSE)}
            ELSE {Outcome(data, r.st, Nil, FALSE)}
        putHead(r) ==
            IF r.err # Nil
            THEN {Outcome(data, r.st, Wrapf(r.err, "field", key), FALSE)}
            ELSE IF r.hit
            THEN {Outcome([data EXCEPT ![key] = List(<<Str(r.val)>> \o Tail(v.l))],
                          r.st, Nil, FALSE)}
            ELSE {Outcome(data, r.st, Nil, FALSE)}
    IN IF IsStr(v) THEN put(hydrateKeyValue(st, key, v.v))
       ELSE IF IsMap(v)
       THEN {Outcome([data EXCEPT ![key] = Map(o.data)], o.st, o.err, o.fatal) :
                 o \in hydrateMapRecursively(v.m, Append(path, key), st)}
       ELSE IF v.t = "list" /\ v.l # <<>> /\ IsStr(v.l[1])
       THEN putHead(hydrateKeyValue(st, key, v.l[1].v))
       ELSE {Outcome(data, st, Nil, FALSE)}

\* The loop body: put is what is made of hydrateKeyValue's result.
visitEntry(data, path, st, key) ==
    LET v == data[key]
        put(r) ==
            IF r.err # Nil
            THEN {Outcome(data, r.st,
                          Wrapf(r.err, "field", JoinSlash(Append(path, key))),
                          FALSE)}
            ELSE IF r.hit
            THEN {Outcome([data EXCEPT ![key] = Str(r.val)], r.st, Nil, FALSE)}
            ELSE {Outcome(data, r.st, Nil, FALSE)}
    IN IF IsStr(v) THEN put(hydrateKeyValue(st, key, v.v))
       ELSE IF IsMap(v)
       THEN {Outcome([data EXCEPT ![key] = Map(o.data)], o.st, o.err, o.fatal) :
                 o \in hydrateMapRecursively(v.m, Append(path, key), st)}
       ELSE {Outcome(data, st, Nil, FALSE)}

\* The loop going on to the remaining keys after an error and returning
\* the first error at the end.
rangeMapContinue(data, path, st, todo) ==
    IF todo = {} THEN {Outcome(data, st, Nil, FALSE)}
    ELSE UNION {UNION {IF o.fatal THEN {o}
                       ELSE {[x EXCEPT !.err = IF o.err # Nil THEN o.err ELSE @] :
                                 x \in rangeMap(o.data, path, o.st, todo \ {key})} :
                           o \in visitEntry(data, path, st, key)} :
                    key \in todo}

rangeMap(data, path, st, todo) ==
    IF todo = {} THEN {Outcome(data, st, Nil, FALSE)}
    ELSE UNION {UNION {IF o.err # Nil \/ o.fatal THEN {o}
                       ELSE rangeMap(o.data, path, o.st, todo \ {key}) :
                           o \in visitEntry(data, path, st, key)} :
                    key \in todo}

hydrateMapRecursively(data, path, st) ==
    rangeMap(data, path, st, DOMAIN data)

(***************************************************************************)
(* The Kubernetes object adapter and the stream front end                  *)
(***************************************************************************)
sKind == <<"k", "i", "n", "d">>
sMetadata == <<"m", "e", "t", "a", "d", "a", "t", "a">>
sData == <<"d", "a", "t", "a">>
sStringData == <<"s", "t", "r", "i", "n", "g", "D", "a", "t", "a">>
sConfigMap == <<"C", "o", "n", "f", "i", "g", "M", "a", "p">>
sSecretKind == <<"S", "e", "c", "r", "e", "t">>
fJSON == <<"j", "s", "o", "n">>
fYML == <<"y", "m", "l">>
fYAML == <<"y", "a", "m", "l">>
fTOML == <<"t", "o", "m", "l">>
StructuredFormats == {fJSON, fYML, fYAML, fTOML}

\* filepath.Ext: the suffix from the last dot of the last path element.
Ext(path) ==
    LET dots == {i \in 1..Len(path) :
                     path[i] = "." /\ \A j \in i..Len(path) : path[j] # "/"}
    IN IF dots = {} THEN <<>>
       ELSE SubSeq(path, CHOOSE i \in dots : \A j \in dots : j <= i, Len(path))

\* strings.TrimLeft(s, c) for a one-character cutset.
RECURSIVE TrimLeft(_, _)
TrimLeft(s, c) == IF s # <<>> /\ <<Head(s)>> = c THEN TrimLeft(Tail(s), c) ELSE s

\* strings.ToLower
ToLower(s) ==
    [i \in 1..Len(s) |->
        IF Ord[s[i]] \in 65..90 THEN Chr(Ord[s[i]] + 32) ELSE s[i]]

\* What Hydrate leaves behind: the text written to w, the resolver state,
\* the returned error, and whether log.Fatal ended the process.
Written(w, st, err, fatal) == [w |-> w, st |-> st, err |-> err, fatal |-> fatal]

Note(st) == [st EXCEPT !.notes = @ + 1]

\* data[name].(map[string]interface{})
FieldMap(data, name) ==
    IF name \in DOMAIN data /\ IsMap(data[name])
    THEN [ok |-> TRUE, m |-> data[name].m] ELSE [ok |-> FALSE, m |-> EmptyMap]

\* kind, _ := data["kind"].(string)
KindOf(data) ==
    IF sKind \in DOMAIN data /\ IsStr(data[sKind]) THEN data[sKind].v ELSE <<>>

RECURSIVE Hydrate(_, _, _, _)

\* The body of the loop over "data" writing the secret back as it is,
\* without encoding it.
visitDataPlainSecret(group, st, key) ==
    LET v == group[key]
        format == TrimLeft(Ext(key), Dot)
        put(r) ==
            IF r.err # Nil
            THEN {Outcome(group, r.st, Wrapf(r.err, "k8sField", key), FALSE)}
            ELSE IF r.hit
            THEN {Outcome([group EXCEPT ![key] = Str(r.val)], r.st, Nil, FALSE)}
            ELSE {Outcome(group, r.st, Nil, FALSE)}
        entry(decoded) ==
            IF ~decoded.ok
            THEN {Outcome(group, st, Wrapf(Errorf("base64", v.v), "decodeField", key),
                          FALSE)}
            ELSE IF format \in StructuredFormats
            THEN {IF h.err # Nil \/ h.fatal THEN Outcome(group, h.st, h.err, TRUE)
                  ELSE Outcome([group EXCEPT ![key] = Str(B64Encode(h.w))], h.st,
                               Nil, FALSE) :
                      h \in Hydrate(decoded.val, format, FALSE, Note(st))}
            ELSE put(hydrateKeyValue(Note(st), key, decoded.val))
    IN IF ~IsStr(v) THEN {Outcome(group, st, Nil, FALSE)}
       ELSE entry(B64Decode(v.v))

\* The body of the loop over "data": one base64-encoded entry; put is what
\* is made of hydrateKeyValue's result.
visitData(group, st, key) ==
    LET v == group[key]
        format == TrimLeft(Ext(key), Dot)
        put(r) ==
            IF r.err # Nil
            THEN {Outcome(group, r.st, Wrapf(r.err, "k8sField", key), FALSE)}
            ELSE IF r.hit
            THEN {Outcome([group EXCEPT ![key] = Str(B64Encode(r.val))], r.st,
                          Nil, FALSE)}
            ELSE {Outcome(group, r.st, Nil, FALSE)}
        entry(decoded) ==
            IF ~decoded.ok
            THEN {Outcome(group, st, Wrapf(Errorf("base64", v.v), "decodeField", key),
                          FALSE)}
            ELSE IF format \in StructuredFormats
            THEN {IF h.err # Nil \/ h.fatal THEN Outcome(group, h.st, h.err, TRUE)
                  ELSE Outcome([group EXCEPT ![key] = Str(B64Encode(h.w))], h.st,
                               Nil, FALSE) :
                      h \in Hydrate(decoded.val, format, FALSE, Note(st))}
            ELSE put(hydrateKeyValue(Note(st), key, decoded.val))
    IN IF ~IsStr(v) THEN {Outcome(group, st, Nil, FALSE)}
       ELSE entry(B64Decode(v.v))

\* The body of the loop over "stringData": one plain-text entry.
visitStringData(group, st, key) ==
    LET v == group[key]
        format == TrimLeft(Ext(key), Dot)
        put(r) ==
            IF r.err # Nil
            THEN {Outcome(group, r.st, Wrapf(r.err, "k8sField", key), FALSE)}
            ELSE IF r.hit
            THEN {Outcome([group EXCEPT ![key] = Str(r.val)], r.st, Nil, FALSE)}
            ELSE {Outcome(group, r.st, Nil, FALSE)}
    IN IF ~IsStr(v) THEN {Outcome(group, st, Nil, FALSE)}
       ELSE IF format \in StructuredFormats
       THEN {IF h.err # Nil \/ h.fatal THEN Outcome(group, h.st, h.err, TRUE)
             ELSE Outcome([group EXCEPT ![key] = Str(h.w)], h.st, Nil, FALSE) :
                 h \in Hydrate(v.v, format, FALSE, Note(st))}
       ELSE put(hydrateKeyValue(Note(st), key, v.v))

\* "for key, value := range" over a field group, in every order, stopping
\* at the first error.
RECURSIVE rangeGroup(_, _, _, _)
rangeGroup(group, st, todo, encoded) ==
    IF todo = {} THEN {Outcome(group, st, Nil, FALSE)}
    ELSE UNION {UNION {IF o.err # Nil \/ o.fatal THEN {o}
                       ELSE rangeGroup(o.data, o.st, todo \ {key}, encoded) :
                           o \in IF encoded THEN visitData(group, st, key)
                                 ELSE visitStringData(group, st, key)} :
                    key \in todo}

\* The switch on kind refusing a missing or empty kind like any other.
KindClassNoRegular(kind) ==
    IF kind \in {sConfigMap, sSecretKind} THEN "object" ELSE "unsupported"

\* The switch on kind walking every unsupported kind as a regular file.
KindClassUnknownRegular(kind) ==
    IF kind \in {sConfigMap, sSecretKind} THEN "object" ELSE "regular"

\* The switch on kind: hydrate the field groups, walk the document as a
\* regular file, or refuse it.
KindClass(kind) ==
    IF kind \in {sConfigMap, sSecretKind} THEN "object"
    ELSE IF kind = <<>> THEN "regular"
    ELSE "unsupported"

\* paramStore.hydrateK8sObject.  The maps under "data" and "stringData" are
\* updated in place, so the entries written before an error stay written.
hydrateK8sObject(data, st) ==
    LET kind == KindOf(data)
        metadata == FieldMap(data, sMetadata)
        k8sData == FieldMap(data, sData)
        k8sStringData == FieldMap(data, sStringData)
        st0 == IF ~k8sData.ok /\ ~k8sStringData.ok THEN Note(st) ELSE st
        put(d, name, f, m) == IF f.ok THEN [d EXCEPT ![name] = Map(m)] ELSE d
    IN IF KindClass(kind) = "regular" THEN hydrateMapRecursively(data, <<>>, st)
       ELSE IF KindClass(kind) = "unsupported"
       THEN {Outcome(data, st, Errorf("kind", kind), FALSE)}
       ELSE IF ~metadata.ok
       THEN {Outcome(data, st, Errorf("metadata", ToLower(kind)), FALSE)}
       ELSE UNION {IF o1.err # Nil \/ o1.fatal
                   THEN {Outcome(put(data, sData, k8sData, o1.data), o1.st, o1.err,
                                 o1.fatal)}
                   ELSE {Outcome(put(put(data, sData, k8sData, o1.data),
                                     sStringData, k8sStringData, o2.data),
                                 o2.st, o2.err, o2.fatal) :
                            o2 \in rangeGroup(k8sStringData.m, o1.st,
                                              DOMAIN k8sStringData.m, FALSE)} :
                      o1 \in rangeGroup(k8sData.m, st0, DOMAIN k8sData.m, TRUE)}

\* paramStore.hydrateData
hydrateData(data, k8s, st) ==
    IF k8s THEN hydrateK8sObject(data, st)
    ELSE hydrateMapRecursively(data, <<>>, st)

\* The loop of the "yml", "yaml" case over the documents of the stream from
\* the i-th on, w being what the encoder has written so far: a document is
\* decoded, hydrated and written to w before the next one is decoded.
RECURSIVE yamlDocuments(_, _, _, _, _)
yamlDocuments(docs, i, k8s, st, w) ==
    IF i > Len(docs) THEN {Written(w, st, Nil, FALSE)}
    ELSE LET d == YAMLDecode(docs[i])
         IN IF ~d.ok
            THEN {Written(w, st, Wrapf(Errorf("syntax", <<>>), "decodeYAML", <<>>),
                          FALSE)}
            ELSE UNION {IF o.err # Nil \/ o.fatal
                        THEN {Written(w, o.st, o.err, o.fatal)}
                        ELSE yamlDocuments(docs, i + 1, k8s, o.st,
                                           w \o YAMLEncode(o.data, i = 1)) :
                            o \in hydrateData(d.data, k8s, st)}

\* paramStore.Hydrate(w, r, format, k8s), r being the text read from r.
Hydrate(r, format, k8s, st) ==
    IF format = fJSON
    THEN LET d == JSONDecode(r)
         IN IF ~d.ok
            THEN {Written(<<>>, st, Wrapf(Errorf("syntax", <<>>), "decodeJSON", <<>>),
                          FALSE)}
            ELSE {IF o.err # Nil \/ o.fatal THEN Written(<<>>, o.st, o.err, o.fatal)
                  ELSE Written(IF d.nil THEN sNull \o <<"\n">> ELSE JSONEncode(o.data),
                               o.st, Nil, FALSE) :
                      o \in hydrateData(d.data, k8s, st)}
    ELSE IF format \in {fYML, fYAML}
    THEN yamlDocuments(YAMLDocuments(r), 1, k8s, st, <<>>)
    ELSE IF format = fTOML
    THEN LET d == TOMLDecode(r)
         IN IF ~d.ok
            THEN {Written(<<>>, st, Wrapf(Errorf("syntax", <<>>), "decodeTOML", <<>>),
                          FALSE)}
            ELSE {IF o.err # Nil \/ o.fatal THEN Written(<<>>, o.st, o.err, o.fatal)
                  ELSE Written(TOMLEncode(o.data), o.st, Nil, FALSE) :
                      o \in hydrateData(d.data, k8s, st)}
    ELSE {Written(<<>>, st, Errorf("format", format), FALSE)}

(***************************************************************************)
(* Inputs                                                                  *)
(***************************************************************************)
kA == <<"a">>
kB == <<"b">>
kAbsQ == <<"/", "q">>
kPwd == <<"p", "w", "d">>
kDbJSON == <<"d", "b", ".", "j", "s", "o", "n">>
pBase == <<"/", "p">>
pBaseSlash == <<"/", "p", "/">>
pRelBase == <<"p">>
pPA == <<"/", "p", "/", "a">>
pPB == <<"/", "p", "/", "b">>
pQ == <<"/", "q">>
pRelPA == <<"p", "/", "a">>
pRelPB == <<"p", "/", "b">>
pMissing == <<"/", "m">>
vX == <<"x">>
vY == <<"y">>
vZ == <<"z">>

\* --path: unset, clean absolute, with a trailing slash, relative.
BasePaths == {<<>>, pBase, pBaseSlash, pRelBase}

\* Parameter Store contents: /m and /g are never held, and only the full
\* store holds a parameter at /p itself.
StoreFull ==
    (pPA :> vX) @@ (pPB :> vY) @@ (pQ :> vZ) @@ (pRelPA :> vX) @@ (pRelPB :> vY)
        @@ (pBase \o Slash \o kPwd :> vX) @@ (pRelBase \o Slash \o kPwd :> vX)
        @@ (pBase :> vY)
StorePartial == (pPA :> vX) @@ (pQ :> vZ) @@ (pRelPA :> vX)
        @@ (pBase \o Slash \o kPwd :> vX)
ParamStores == {StoreFull, StorePartial}

mSelf1 == sDollars
mSelf2 == sSecret
mAbsQ == sSecretColon \o pQ
mAbsPA == sSecretColon \o pPA
mRelB == sSecretColon \o kB
mEmpty == sSecretColon
mMissing == sSecretColon \o pMissing
mGone == sSecretColon \o <<"/", "g">>
nearSecretX == sSecret \o vX
nearDollarsX == sDollars \o vX
nearXDollars == vX \o sDollars

\* Keys given to GetSecret.
SecretKeys ==
    {kA, kB, pQ, pPA, pMissing, <<>>, <<"x", "/", ".", ".", "/", "a">>,
     <<"/", "p", "/", "/", "a">>, pRelPA}

\* Keys and values given to hydrateKeyValue: every value at the plain keys,
\* the self-key markers at the keys filepath.Join rewrites.
KeyValueInputs ==
    ({kA, kB, kAbsQ}
         \X {mSelf1, mSelf2, mAbsQ, mAbsPA, mRelB, mEmpty, mMissing,
             nearSecretX, nearDollarsX, nearXDollars, vX, <<>>})
    \cup ({<<>>, Dot, DotDot, <<"a", "/", "/", "b">>, <<"a", "/", "b">>}
              \X {mSelf1, mSelf2})

\* Documents given to plain-mode hydration.
PlainDocs ==
    { EmptyMap,
      (kA :> Str(mSelf1)),
      (kA :> Str(mSelf2)) @@ (kB :> Str(mAbsPA)),
      (kA :> Str(mAbsQ)) @@ (kB :> Str(mAbsQ)),
      (kA :> Str(mRelB)) @@ (kB :> Str(mSelf1)),
      (kA :> Str(vX)) @@ (kB :> Num(<<"1">>)),
      (kA :> Str(nearSecretX)) @@ (kB :> Str(nearDollarsX)),
      (kA :> Str(nearXDollars)) @@ (kB :> Bool(sTrue)),
      (kA :> List(<<Str(mSelf1), Map((kB :> Str(mSelf1)))>>)) @@ (kB :> Null),
      (kA :> Map((kB :> Str(mSelf1)))) @@ (kB :> Str(mSelf2)),
      (kA :> Str(mSelf1)) @@ (kB :> Map((kA :> Str(mMissing)) @@ (kB :> Str(mAbsQ)))),
      (kA :> Str(mMissing)) @@ (kB :> Str(mAbsQ)),
      (kA :> Str(mMissing)) @@ (kB :> Str(mGone)),
      (kAbsQ :> Str(mSelf1)),
      (kA :> Bool(sTrue)) @@ (kB :> Map((kA :> Num(<<"1">>)) @@ (kB :> List(<<Str(mAbsQ)>>)))),
      (kA :> Str(mEmpty)) }

sJob == <<"J", "o", "b">>

\* metadata: {name: n}
Meta == Map((<<"n", "a", "m", "e">> :> Str(<<"n">>)))

\* Kubernetes objects and other documents given to Kubernetes-mode
\* hydration, besides the documents of plain mode.  The nested files are
\* the texts the codecs write for small documents, and a truncated one.
K8sObjects ==
    { (sKind :> Str(<<>>)) @@ (kA :> Str(mAbsQ)) @@ (kB :> Map((kA :> Str(mSelf1)))),
      (sKind :> Num(<<"1">>)) @@ (kA :> Str(mSelf2)),
      (sKind :> Str(sJob)) @@ (kA :> Str(mSelf1)),
      (sKind :> Str(sJob)) @@ (sMetadata :> Meta)
          @@ (sData :> Map((kA :> Str(B64Encode(mAbsQ))))),
      (sKind :> Str(ToLower(sConfigMap))) @@ (sMetadata :> Meta)
          @@ (sStringData :> Map((kA :> Str(mAbsQ)))),
      (sKind :> Str(sSecretKind))
          @@ (sData :> Map((kDbJSON :>
                 Str(B64Encode(JSONNode(Map((kPwd :> Str(mSelf2))))))))),
      (sKind :> Str(sSecretKind)) @@ (sMetadata :> Meta)
          @@ (sData :> Map((kDbJSON :>
                 Str(B64Encode(JSONNode(Map((kPwd :> Str(mSelf2))))))))),
      (sKind :> Str(sConfigMap)) @@ (sMetadata :> Meta)
          @@ (sData :> Map((kA :> Str(B64Encode(mSelf1))) @@ (kB :> Str(B64Encode(vX)))))
          @@ (sStringData :> Map((kA :> Str(mAbsQ))
                 @@ (kA \o Dot \o fYAML :> Str(YAMLEncode((kA :> Str(mSelf1)), TRUE))))),
      (sKind :> Str(sSecretKind)) @@ (sMetadata :> Str(vX))
          @@ (sData :> Map((kA :> Str(B64Encode(mAbsQ))))),
      (sKind :> Str(sSecretKind)) @@ (sMetadata :> Meta)
          @@ (sData :> Map((kA :> Str(<<"!", "!">>)))),
      (sKind :> Str(sSecretKind)) @@ (sMetadata :> Meta)
          @@ (sData :> Map((kDbJSON :> Str(B64Encode(<<"{", "\"", "a", "\"", ":">>))))),
      (sKind :> Str(sSecretKind)) @@ (sMetadata :> Meta)
          @@ (sStringData :> Map((kA \o Dot \o fTOML :>
                 Str(TOMLEncode((kA :> Str(mMissing))))))),
      (sKind :> Str(sSecretKind)) @@ (sMetadata :> Map((kA :> Str(mAbsQ)))),
      (sKind :> Str(sConfigMap)) @@ (kA :> Str(mAbsQ)),
      (sKind :> Str(sConfigMap)) @@ (sMetadata :> Map((kA :> Str(mSelf1))))
          @@ (kA :> Str(mAbsQ)) @@ (kB :> Map((kA :> Str(mSelf2))))
          @@ (sStringData :> Map((kA :> Str(mAbsPA)) @@ (kB :> Num(<<"1">>)))),
      (sKind :> Str(sSecretKind)) @@ (sMetadata :> Meta)
          @@ (sData :> Map((kA :> Num(<<"1">>)) @@ (kB :> Str(B64Encode(mMissing))))),
      (sKind :> Str(sConfigMap)) @@ (sMetadata :> Meta)
          @@ (sData :> Map((kA :> Bool(sTrue)) @@ (kB :> Str(B64Encode(vX)))))
          @@ (<<"b", "i", "n", "a", "r", "y", "D", "a", "t", "a">> :> Map((kA :> Str(B64Encode(mAbsQ))))) }

\* The documents behind the streams given to Hydrate.
StreamDocs ==
    { (kA :> Str(mSelf1)),
      (kA :> Str(mAbsQ)),
      (kB :> Str(mMissing)),
      (kA :> Map((kA :> Num(<<"1">>)) @@ (kB :> Str(mAbsQ)))) @@ (kB :> Str(vY)),
      (sKind :> Str(sJob)),
      (sKind :> Str(sSecretKind)) @@ (sMetadata :> Meta)
          @@ (sStringData :> Map((kA :> Str(mAbsQ)))) }

\* What Hydrate is given: the text behind r, --format and --k8s.  The
\* texts are those the codecs write for the documents above, alone or two
\* in a row, and texts that do not decode: a truncated object, a YAML
\* document that is a scalar, a TOML line without a value.
StreamInputs ==
    (({JSONEncode(d) : d \in StreamDocs}
          \cup {JSONEncode((kA :> Str(mAbsQ))) \o JSONEncode((kB :> Str(mMissing))),
                <<"{", "\"", "a", "\"", ":">>, sNull, <<>>})
         \X {fJSON} \X BOOLEAN)
    \cup (({YAMLEncode(d, TRUE) : d \in StreamDocs}
               \cup {YAMLEncode((kA :> Str(v)), TRUE) \o YAMLEncode(d, FALSE) :
                         v \in {mAbsQ, mSelf1}, d \in StreamDocs}
               \cup {YAMLEncode((kA :> Str(v)), TRUE)
                          \o sDocSep \o <<"\n">> \o vX \o <<"\n">> :
                         v \in {mAbsQ, mMissing}}
               \cup {<<>>})
              \X {fYAML} \X BOOLEAN)
    \cup ({YAMLEncode((kA :> Str(mAbsQ)), TRUE) \o YAMLEncode(d, FALSE) :
               d \in {(kB :> Str(mAbsQ)), (kB :> Str(mMissing))}}
              \X {fYML} \X {FALSE})
    \cup (({TOMLEncode((kA :> Str(v))) : v \in {mSelf1, mAbsQ, mMissing}}
               \cup {<<"a", " ", "=", " ", "\n">>})
              \X {fTOML} \X {FALSE})
    \cup ({JSONEncode((kA :> Str(mAbsQ)))} \X {<<"x", "m", "l">>, <<>>} \X {FALSE})

(***************************************************************************)
(* The state machine                                                       *)
(***************************************************************************)
NoResult ==
    [data |-> EmptyMap, val |-> <<>>, hit |-> FALSE, w |-> <<>>,
     err |-> Nil, fatal |-> FALSE]

\* The record of the last API call: its arguments, the resolver state it
\* started from and what it returned.
Call(op, key, value, doc, k8s, pre, out) ==
    [op |-> op, key |-> key, value |-> value, doc |-> doc, k8s |-> k8s,
     pre |-> pre, out |-> out]

\* The goroutines that call GetSecret on the one paramStore.
Callers == {1, 2}

\* A goroutine that has not called GetSecret yet.
Idle == [pc |-> "idle", key |-> <<>>, path |-> <<>>, val |-> <<>>, err |-> Nil]

Init ==
    /\ basePath \in BasePaths
    /\ params \in ParamStores
    /\ secrets = EmptyMap
    /\ calls = <<>>
    /\ warns = 0
    /\ notes = 0
    /\ last = Call("none", <<>>, <<>>, EmptyMap, FALSE,
                   [secrets |-> EmptyMap, calls |-> <<>>, warns |-> 0,
                    notes |-> 0], NoResult)
    /\ nops = 0
    /\ exited = FALSE
    /\ procs = [c \in Callers |-> Idle]

\* The effect of one API call on the paramStore and the process.
Commit(st, call) ==
    /\ secrets' = st.secrets
    /\ calls' = st.calls
    /\ warns' = st.warns
    /\ notes' = st.notes
    /\ last' = call
    /\ nops' = nops + 1
    /\ exited' = call.out.fatal
    /\ UNCHANGED <<basePath, params, procs>>

Running == nops < MaxOps /\ ~exited

GetSecretCall ==
    /\ Running
    /\ \E key \in SecretKeys :
           LET r == GetSecret(StoreState, key)
           IN Commit(r.st, Call("GetSecret", key, <<>>, EmptyMap, FALSE, StoreState,
                                [NoResult EXCEPT !.val = r.val, !.err = r.err]))

HydrateKeyValueCall ==
    /\ Running
    /\ \E kv \in KeyValueInputs :
           LET key == kv[1]
               value == kv[2]
               r == hydrateKeyValue(StoreState, key, value)
           IN Commit(r.st, Call("hydrateKeyValue", key, value, EmptyMap, FALSE,
                                StoreState,
                                [NoResult EXCEPT !.val = r.val, !.hit = r.hit,
                                                 !.err = r.err]))

HydratePlainCall ==
    /\ Running
    /\ \E doc \in PlainDocs :
           \E o \in hydrateData(doc, FALSE, StoreState) :
               Commit(o.st, Call("hydrateData", <<>>, <<>>, doc, FALSE, StoreState,
                                 [NoResult EXCEPT !.data = o.data, !.err = o.err,
                                                  !.fatal = o.fatal]))

HydrateK8sCall ==
    /\ Running
    /\ \E doc \in PlainDocs \cup K8sObjects :
           \E o \in hydrateData(doc, TRUE, StoreState) :
               Commit(o.st, Call("hydrateData", <<>>, <<>>, doc, TRUE, StoreState,
                                 [NoResult EXCEPT !.data = o.data, !.err = o.err,
                                                  !.fatal = o.fatal]))

\* Hydrate(w, r, format, k8s): the record keeps the format under key and
\* the input text under value.
HydrateCall ==
    /\ Running
    /\ \E in \in StreamInputs :
           \E h \in Hydrate(in[1], in[2], in[3], StoreState) :
               Commit(h.st, Call("Hydrate", in[2], in[1], EmptyMap, in[3],
                                 StoreState,
                                 [NoResult EXCEPT !.w = h.w, !.err = h.err,
                                                  !.fatal = h.fatal]))

NextResolver == GetSecretCall \/ HydrateKeyValueCall
SpecResolver == Init /\ [][NextResolver]_vars

SpecPlain == Init /\ [][HydratePlainCall]_vars

NextRun == GetSecretCall \/ HydratePlainCall
SpecRun == Init /\ [][NextRun]_vars

SpecK8s == Init /\ [][HydrateK8sCall]_vars

SpecStream == Init /\ [][HydrateCall]_vars

(***************************************************************************)
(* GetSecret called from several goroutines.  The cache is a concurrency-  *)
(* safe map (generated by syncmap): Load and Store are atomic, and nothing *)
(* in GetSecret holds a lock from the Load to the Store.                   *)
(***************************************************************************)
\* Keys the goroutines ask for.
ConcurrentKeys == {kA, pQ, pPA, pMissing}

\* Lines 35-47: the key is normalised and looked up in the cache.
Begin(c) ==
    /\ procs[c].pc = "idle"
    /\ \E key \in ConcurrentKeys :
           LET n == NormalizeKey(key)
           IN /\ warns' = warns + (IF n.warned THEN 1 ELSE 0)
              /\ procs' = [procs EXCEPT ![c] =
                     IF ~n.ok
                     THEN [pc |-> "done", key |-> key, path |-> n.path,
                           val |-> <<>>, err |-> Errorf("config", key)]
                     ELSE IF n.path \in DOMAIN secrets
                     THEN [pc |-> "done", key |-> key, path |-> n.path,
                           val |-> secrets[n.path], err |-> Nil]
                     ELSE [pc |-> "fetch", key |-> key, path |-> n.path,
                           val |-> <<>>, err |-> Nil]]
    /\ UNCHANGED <<basePath, params, secrets, calls, notes, last, nops, exited>>

\* Lines 49-58: the provider is asked for the path.
Fetch(c) ==
    /\ procs[c].pc = "fetch"
    /\ calls' = Append(calls, procs[c].path)
    /\ procs' = [procs EXCEPT ![c] =
           IF ProviderHas(procs[c].path)
           THEN [@ EXCEPT !.pc = "store", !.val = params[procs[c].path]]
           ELSE [@ EXCEPT !.pc = "done",
                          !.err = Wrapf(Errorf("provider", procs[c].path), "fetch",
                                        procs[c].path)]]
    /\ UNCHANGED <<basePath, params, secrets, warns, notes, last, nops, exited>>

\* Lines 59-62: the fetched value is stored and returned.
StoreFetched(c) ==
    /\ procs[c].pc = "store"
    /\ secrets' = Store(secrets, procs[c].path, procs[c].val)
    /\ procs' = [procs EXCEPT ![c].pc = "done"]
    /\ UNCHANGED <<basePath, params, calls, warns, notes, last, nops, exited>>

\* Somebody else changes a parameter in the Parameter Store, once.
PutParameter ==
    /\ params \in ParamStores
    /\ \E p \in DOMAIN params : \E v \in {vX, vY, vZ} :
           /\ v # params[p]
           /\ params' = [params EXCEPT ![p] = v]
    /\ UNCHANGED <<basePath, secrets, calls, warns, notes, last, nops, exited,
                   procs>>

NextConcurrent ==
    \/ \E c \in Callers : Begin(c) \/ Fetch(c) \/ StoreFetched(c)
    \/ PutParameter
SpecConcurrent == Init /\ [][NextConcurrent]_vars

(***************************************************************************)
(* Vocabulary of the properties                                            *)
(***************************************************************************)
\* The reference grammar as documented: "$$", "$SECRET", "$SECRET:<path>".
IsRef(v) == v \in {sDollars, sSecret} \/ HasPrefix(v, sSecretColon)

CountCalls(p) == Cardinality({i \in 1..Len(calls) : calls[i] = p})
CalledPaths == {calls[i] : i \in 1..Len(calls)}
AllAnswered == \A i \in 1..Len(calls) : calls[i] \in DOMAIN params

\* The provider calls made by the last API call.
NewCalls == SubSeq(calls, Len(last.pre.calls) + 1, Len(calls))

\* Every "$SECRET:"+p entry of in, reached through nested maps, holds the
\* provider's value for the normalized path of p in out.
RECURSIVE ExplicitReplaced(_, _)
ExplicitReplaced(in, out) ==
    /\ DOMAIN out = DOMAIN in
    /\ \A k \in DOMAIN in :
           /\ (IsStr(in[k]) /\ HasPrefix(in[k].v, sSecretColon)) =>
                  LET n == NormalizeKey(SubSeq(in[k].v, 9, Len(in[k].v)))
                  IN /\ n.ok
                     /\ n.path \in CalledPaths
                     /\ out[k] = Str(params[n.path])
           /\ IsMap(in[k]) =>
                  IsMap(out[k]) /\ ExplicitReplaced(in[k].m, out[k].m)

\* C1: in a run whose provider calls were all answered, each path was
\* fetched exactly once however often it was referenced, the cache holds
\* exactly the fetched paths with the provider's values, a successful
\* hydration replaced every "$SECRET:"+p entry by the provider's value for
\* the normalized path of p, and a GetSecret that hit the cache called
\* nothing.
C1_OncePerPath ==
    AllAnswered =>
        /\ \A p \in CalledPaths : CountCalls(p) = 1
        /\ DOMAIN secrets = CalledPaths
        /\ \A p \in DOMAIN secrets : secrets[p] = params[p]
        /\ (last.op = "hydrateData" /\ last.out.err = Nil) =>
               ExplicitReplaced(last.doc, last.out.data)
        /\ (last.op = "GetSecret" /\ NormalizeKey(last.key).ok
                /\ NormalizeKey(last.key).path \in DOMAIN last.pre.secrets) =>
               /\ calls = last.pre.calls
               /\ last.out.val = last.pre.secrets[NormalizeKey(last.key).path]

\* A second document refers twice to a path an earlier call had fetched.
C1_Witness ==
    /\ nops = 2 /\ AllAnswered
    /\ last.op = "hydrateData" /\ last.out.err = Nil
    /\ last.doc = (kA :> Str(mAbsQ)) @@ (kB :> Str(mAbsQ))
    /\ pQ \in DOMAIN last.pre.secrets
    /\ last.out.data = (kA :> Str(vZ)) @@ (kB :> Str(vZ))
    /\ CountCalls(pQ) = 1

\* What a lookup of the path p leaves behind when started from the
\* resolver state pre: a cached p is returned without a call; otherwise p
\* is requested once and stored if the provider holds it.
LookedUp(pre, p, val, err) ==
    IF p \in DOMAIN pre.secrets
    THEN /\ calls = pre.calls /\ secrets = pre.secrets
         /\ err = Nil /\ val = pre.secrets[p]
    ELSE /\ calls = Append(pre.calls, p)
         /\ IF p \in DOMAIN params
            THEN /\ err = Nil /\ val = params[p]
                 /\ secrets = Store(pre.secrets, p, params[p])
            ELSE /\ err.kind = "provider" /\ err.key = p
                 /\ secrets = pre.secrets

\* What a resolver call with lookup key k leaves behind.
Resolved(pre, k, val, err) ==
    IF HasPrefix(k, Slash) THEN LookedUp(pre, k, val, err)
    ELSE IF basePath = <<>>
    THEN err.kind = "config" /\ calls = pre.calls /\ secrets = pre.secrets
    ELSE LookedUp(pre, Join(basePath, k), val, err)

\* C3: hydrateKeyValue classifies by the value alone: "$$" and "$SECRET"
\* look up the key, "$SECRET:"+rest looks up rest verbatim, and any other
\* value is no replacement, no error and no resolver or provider call.
C3_Classify ==
    last.op = "hydrateKeyValue" =>
        IF last.value \in {sDollars, sSecret}
        THEN /\ Resolved(last.pre, last.key, last.out.val, last.out.err)
             /\ last.out.hit = (last.out.err = Nil)
        ELSE IF Len(last.value) >= 8 /\ SubSeq(last.value, 1, 8) = sSecretColon
        THEN /\ Resolved(last.pre, SubSeq(last.value, 9, Len(last.value)),
                         last.out.val, last.out.err)
             /\ last.out.hit = (last.out.err = Nil)
        ELSE /\ ~last.out.hit /\ last.out.err = Nil
             /\ StoreState = last.pre

\* "$SECRET:b" at key a fetched the joined path of b, not of a.
C3_Witness ==
    /\ last.op = "hydrateKeyValue" /\ last.key = kA /\ last.value = mRelB
    /\ basePath = pBase /\ last.out.hit /\ last.out.val = vY
    /\ calls = Append(last.pre.calls, pPB)

\* C8: GetSecret of a relative key fails with a configuration error, no
\* provider call and an unchanged cache when no base path is set; with a
\* base path the joined path is the provider path and the cache key; an
\* absolute key is looked up as given.
C8_Normalize ==
    last.op = "GetSecret" =>
        /\ Resolved(last.pre, last.key, last.out.val, last.out.err)
        /\ (HasPrefix(last.key, Slash) /\ last.key \notin DOMAIN last.pre.secrets) =>
               calls = Append(last.pre.calls, last.key)

\* A relative key was joined onto the base path, fetched and cached there.
C8_Witness ==
    /\ last.op = "GetSecret" /\ last.key = kA /\ basePath = pBaseSlash
    /\ last.out.err = Nil
    /\ calls = Append(last.pre.calls, pPA)
    /\ pPA \in DOMAIN secrets /\ pPA \notin DOMAIN last.pre.secrets

\* The last call was hydrateKeyValue of a self-key marker with a base path
\* configured.
SelfKeyCall ==
    /\ last.op = "hydrateKeyValue"
    /\ last.value \in {sDollars, sSecret}
    /\ basePath # <<>>

\* The last call's results are those hydrateKeyValue gives, from the same
\* resolver state, for the value v at the same key: the same secret, cache
\* and provider calls, and an error of the same kind for the same path.
SameResolution(v) ==
    LET r == hydrateKeyValue(last.pre, last.key, v)
    IN /\ last.out.hit = r.hit
       /\ last.out.val = r.val
       /\ secrets = r.st.secrets
       /\ calls = r.st.calls
       /\ last.out.err.kind = r.err.kind
       /\ last.out.err.key = r.err.key

\* base is "/" followed by a clean relative path, and key is a clean
\* relative path: non-empty elements, none of them "." or "..".
PlainElems(s) ==
    /\ s # <<>>
    /\ \A e \in {SplitSlash(s)[i] : i \in 1..Len(SplitSlash(s))} :
           e \notin {<<>>, Dot, DotDot}
CleanAbsolute(base) == HasPrefix(base, Slash) /\ PlainElems(Tail(base))

\* C2 as stated: for every key and every configured base path, "$$" and
\* "$SECRET" at key k resolve as "$SECRET:" + base + "/" + k does.
C2_AsStated ==
    SelfKeyCall =>
        SameResolution(sSecretColon \o basePath \o Slash \o last.key)

\* C2, amended: when the base path is "/" followed by a clean relative path
\* and k is a clean relative path, "$$" and "$SECRET" at key k resolve as
\* "$SECRET:" + base + "/" + k does; and for every key and base path the
\* two spellings "$$" and "$SECRET" resolve alike.
C2_SelfKey ==
    SelfKeyCall =>
        /\ (CleanAbsolute(basePath) /\ PlainElems(last.key)) =>
               SameResolution(sSecretColon \o basePath \o Slash \o last.key)
        /\ SameResolution(sDollars) /\ SameResolution(sSecret)
        /\ warns = hydrateKeyValue(last.pre, last.key, sDollars).st.warns
        /\ warns = hydrateKeyValue(last.pre, last.key, sSecret).st.warns

\* "$SECRET" at key a under --path=/p fetched /p/a, as "$SECRET:/p/a" does.
C2_Witness ==
    /\ SelfKeyCall /\ last.value = sSecret /\ last.key = kA /\ basePath = pBase
    /\ last.out.hit /\ last.out.val = vX
    /\ calls = Append(last.pre.calls, pPA)

\* out differs from in only at map entries, reached through nested maps,
\* whose value is a string of the reference grammar; the keys are the same
\* at every level.
RECURSIVE OnlyRefsChanged(_, _)
OnlyRefsChanged(in, out) ==
    /\ DOMAIN out = DOMAIN in
    /\ \A k \in DOMAIN in :
           IF IsMap(in[k])
           THEN IsMap(out[k]) /\ OnlyRefsChanged(in[k].m, out[k].m)
           ELSE IF IsStr(in[k]) /\ IsRef(in[k].v)
           THEN IsStr(out[k])
           ELSE out[k] = in[k]

\* Some map entry of doc, reached through nested maps, is a reference.
RECURSIVE HasMapRef(_)
HasMapRef(doc) ==
    \E k \in DOMAIN doc :
        \/ IsStr(doc[k]) /\ IsRef(doc[k].v)
        \/ IsMap(doc[k]) /\ HasMapRef(doc[k].m)

\* C4: plain-mode hydration changes only reference strings held by map
\* entries reached through nested maps and adds or removes no key; numbers,
\* booleans, nulls and lists (whatever they hold) are untouched; a document
\* with no reference among its map entries comes out equal to its input,
\* with no error, no provider call and the cache as it was.
C4_Frame ==
    (last.op = "hydrateData" /\ ~last.k8s) =>
        /\ OnlyRefsChanged(last.doc, last.out.data)
        /\ ~HasMapRef(last.doc) =>
               /\ last.out.data = last.doc
               /\ last.out.err = Nil
               /\ calls = last.pre.calls
               /\ secrets = last.pre.secrets

\* A document whose markers all sit inside a list came out as it went in.
C4_Witness ==
    /\ last.op = "hydrateData" /\ ~last.k8s /\ basePath = pBase
    /\ last.doc = (kA :> List(<<Str(mSelf1), Map((kB :> Str(mSelf1)))>>))
                      @@ (kB :> Null)
    /\ last.out.data = last.doc
    /\ last.out.err = Nil
    /\ calls = last.pre.calls

\* The lookup key of the reference v held at key k.
RefKey(k, v) == IF v \in {sDollars, sSecret} THEN k ELSE SubSeq(v, 9, Len(v))

\* Every entry of out that differs from in holds the cached secret of the
\* reference it replaced.
RECURSIVE ChangedFromCache(_, _)
ChangedFromCache(in, out) ==
    \A k \in DOMAIN in :
        IF IsMap(in[k]) THEN ChangedFromCache(in[k].m, out[k].m)
        ELSE out[k] # in[k] =>
                 LET n == NormalizeKey(RefKey(k, in[k].v))
                 IN /\ n.ok /\ n.path \in DOMAIN secrets
                    /\ out[k] = Str(secrets[n.path])

\* C9: when the provider fails, the failing request is the last provider
\* call of the API call and the only one that failed (no retry, nothing
\* called after it); nothing is cached for the path; GetSecret returns no
\* value; the error comes back wrapped; and every entry the walker changed
\* holds a fetched secret, never a default.
C9_FailFast ==
    (last.op \in {"GetSecret", "hydrateData"} /\ last.out.err.kind = "provider") =>
        /\ NewCalls # <<>>
        /\ NewCalls[Len(NewCalls)] = last.out.err.key
        /\ last.out.err.key \notin DOMAIN params
        /\ \A i \in 1..(Len(NewCalls) - 1) : NewCalls[i] \in DOMAIN params
        /\ last.out.err.key \notin DOMAIN secrets
        /\ last.out.err.wraps # <<>>
        /\ last.out.val = <<>>
        /\ last.op = "GetSecret" => Len(NewCalls) = 1
        /\ last.op = "hydrateData" =>
               /\ OnlyRefsChanged(last.doc, last.out.data)
               /\ ChangedFromCache(last.doc, last.out.data)

\* A walk that had hydrated one key failed on the next and stopped there.
C9_Witness ==
    /\ last.op = "hydrateData" /\ last.out.err.kind = "provider"
    /\ last.doc = (kA :> Str(mMissing)) @@ (kB :> Str(mAbsQ))
    /\ NewCalls = <<pQ, pMissing>>
    /\ last.out.data = (kA :> Str(mMissing)) @@ (kB :> Str(vZ))

(***************************************************************************)
(* Kubernetes mode and the stream front end                                *)
(***************************************************************************)
K8sModeCall == last.op = "hydrateData" /\ last.k8s

\* The document has no kind, or an empty one.
KindAbsentOrEmpty(doc) == sKind \notin DOMAIN doc \/ doc[sKind] = Str(<<>>)

\* What the caller of a hydration observes, taken from an outcome.
Observed(o) ==
    [data |-> o.data, err |-> o.err, fatal |-> o.fatal, calls |-> o.st.calls,
     secrets |-> o.st.secrets]

\* What the caller of the last hydration observed.
ObservedLast ==
    [data |-> last.out.data, err |-> last.out.err, fatal |-> last.out.fatal,
     calls |-> calls, secrets |-> secrets]

SecretWithNestedJSON ==
    (sKind :> Str(sSecretKind))
        @@ (sData :> Map((kDbJSON :>
               Str(B64Encode(JSONNode(Map((kPwd :> Str(sSecret)))))))))

\* C7: in Kubernetes mode, given the manifest {kind: "Secret", data:
\* {"db.json": base64 of {"pwd":"$SECRET"}}} and a provider holding "x" at
\* the normalized path of key pwd, the hydration succeeds and "db.json"
\* becomes the base64 of a JSON document equal to {"pwd":"x"}.
C7_NestedJSON ==
    (/\ K8sModeCall
     /\ last.doc = SecretWithNestedJSON
     /\ NormalizeKey(kPwd).ok
     /\ NormalizeKey(kPwd).path \in DOMAIN params
     /\ params[NormalizeKey(kPwd).path] = vX) =>
        /\ last.out.err = Nil
        /\ ~last.out.fatal
        /\ DOMAIN last.out.data = DOMAIN last.doc
        /\ last.out.data[sKind] = Str(sSecretKind)
        /\ IsMap(last.out.data[sData])
        /\ DOMAIN last.out.data[sData].m = {kDbJSON}
        /\ IsStr(last.out.data[sData].m[kDbJSON])
        /\ LET b == B64Decode(last.out.data[sData].m[kDbJSON].v)
           IN /\ b.ok
              /\ JSONDecode(b.val) =
                     [ok |-> TRUE, nil |-> FALSE, data |-> (kPwd :> Str(vX))]

\* The manifest of C7 was hydrated against a provider holding "x" for pwd
\* and came back untouched with the missing-metadata error.
C7_Witness ==
    /\ K8sModeCall
    /\ last.doc = SecretWithNestedJSON
    /\ NormalizeKey(kPwd).ok
    /\ NormalizeKey(kPwd).path \in DOMAIN params
    /\ params[NormalizeKey(kPwd).path] = vX
    /\ last.out.err = Errorf("metadata", ToLower(sSecretKind))
    /\ last.out.data = last.doc
    /\ calls = last.pre.calls

\* C10: when Hydrate ends with an error nothing has been written to w,
\* also for a YAML stream whose earlier documents hydrated; when every
\* document succeeds the output holds one document per input document, in
\* input order.
C10_NoPartialOutput ==
    (last.op = "Hydrate") =>
        /\ (last.out.err # Nil \/ last.out.fatal) => last.out.w = <<>>
        /\ (last.out.err = Nil /\ ~last.out.fatal /\ last.key \in {fYML, fYAML}) =>
               /\ Len(YAMLDocuments(last.out.w)) = Len(YAMLDocuments(last.value))
               /\ \A i \in 1..Len(YAMLDocuments(last.value)) :
                      DOMAIN YAMLDecode(YAMLDocuments(last.out.w)[i]).data
                          = DOMAIN YAMLDecode(YAMLDocuments(last.value)[i]).data

\* A two-document YAML stream whose second document names a parameter the
\* provider fails for: Hydrate returned the provider's error after the
\* first document, hydrated, had been written to w.
C10_Witness ==
    /\ last.op = "Hydrate"
    /\ last.key \in {fYML, fYAML}
    /\ last.value = YAMLEncode((kA :> Str(mAbsQ)), TRUE)
                        \o YAMLEncode((kB :> Str(mMissing)), FALSE)
    /\ last.out.err.kind = "provider"
    /\ last.out.w = YAMLEncode((kA :> Str(vZ)), TRUE)
    /\ calls \in {last.pre.calls \o <<pMissing>>, last.pre.calls \o <<pQ, pMissing>>}

(***************************************************************************)
(* GetSecret from several goroutines                                       *)
(***************************************************************************)
\* C11: with GetSecret called from several goroutines, the provider is
\* asked for any path at most once, the goroutines that were answered for
\* the same path hold the same value even if the provider's value changed
\* in between, and a cache entry once stored is never changed or removed.
C11_ConcurrentOnce ==
    /\ [](\A p \in CalledPaths : CountCalls(p) <= 1)
    /\ [](\A c, d \in Callers :
              (/\ procs[c].pc = "done" /\ procs[d].pc = "done"
               /\ procs[c].err = Nil /\ procs[d].err = Nil
               /\ procs[c].path = procs[d].path) =>
                  procs[c].val = procs[d].val)
    /\ [][\A p \in DOMAIN secrets :
              p \in DOMAIN secrets' /\ secrets'[p] = secrets[p]]_vars

\* Two goroutines missed the cache for /q before either had stored it:
\* the provider was asked twice, its value changed in between, and the
\* goroutines returned different values.
C11_Witness ==
    /\ procs[1].pc = "done" /\ procs[2].pc = "done"
    /\ procs[1].path = pQ /\ procs[2].path = pQ
    /\ procs[1].err = Nil /\ procs[2].err = Nil
    /\ procs[1].val # procs[2].val
    /\ CountCalls(pQ) = 2

(***************************************************************************)
(* The Kubernetes object adapter                                           *)
(***************************************************************************)
\* The last call hydrated a ConfigMap or Secret in Kubernetes mode.
K8sObjectCall == K8sModeCall /\ KindOf(last.doc) \in {sConfigMap, sSecretKind}

\* The field groups of a document and how its hydration ended.
GroupsAndEnd(data, err, fatal) ==
    [groups |-> [g \in {sData, sStringData} \cap DOMAIN data |-> data[g]],
     err |-> err, fatal |-> fatal]

\* The manifest with metadata {name: n} in place of whatever it has.
WithMetadata(doc) ==
    [k \in DOMAIN doc \cup {sMetadata} |-> IF k = sMetadata THEN Meta ELSE doc[k]]

\* C12: in Kubernetes mode a ConfigMap or Secret is hydrated to the same
\* field groups, with the same error or success, as the same manifest with
\* a metadata map that has a name: metadata missing, not a map or without
\* a name makes no difference.
C12_MetadataNotNeeded ==
    K8sObjectCall =>
        GroupsAndEnd(last.out.data, last.out.err, last.out.fatal) \in
            {GroupsAndEnd(o.data, o.err, o.fatal) :
                 o \in hydrateData(WithMetadata(last.doc), TRUE, last.pre)}

\* A Secret without metadata came back with the missing-metadata error and
\* its data untouched, although with metadata it hydrates without error.
C12_Witness ==
    /\ K8sObjectCall
    /\ sMetadata \notin DOMAIN last.doc
    /\ sData \in DOMAIN last.doc
    /\ last.out.err = Errorf("metadata", ToLower(KindOf(last.doc)))
    /\ last.out.data = last.doc
    /\ calls = last.pre.calls
    /\ \E o \in hydrateData(WithMetadata(last.doc), TRUE, last.pre) :
           o.err = Nil /\ ~o.fatal /\ o.data[sData] # last.doc[sData]

\* The third field group of the Field Group Policy.
sBinaryData == <<"b", "i", "n", "a", "r", "y", "D", "a", "t", "a">>

\* No string of the group g of doc is a reference marker, the strings being
\* base64-decoded first when the group is an encoded one.
NoMarkerLeft(doc, g, encoded) ==
    (g \in DOMAIN doc /\ IsMap(doc[g])) =>
        \A k \in DOMAIN doc[g].m :
            IsStr(doc[g].m[k]) =>
                IF encoded
                THEN B64Decode(doc[g].m[k].v).ok =>
                         ~IsRef(B64Decode(doc[g].m[k].v).val)
                ELSE ~IsRef(doc[g].m[k].v)

\* C13: after a successful Kubernetes-mode hydration of a ConfigMap or
\* Secret no value under data, stringData or binaryData is a reference
\* marker any more (data and binaryData values taken base64-decoded).
C13_AllGroups ==
    (K8sObjectCall /\ last.out.err = Nil /\ ~last.out.fatal) =>
        /\ NoMarkerLeft(last.out.data, sData, TRUE)
        /\ NoMarkerLeft(last.out.data, sStringData, FALSE)
        /\ NoMarkerLeft(last.out.data, sBinaryData, TRUE)

\* A ConfigMap whose binaryData holds the base64 of "$SECRET:/q" was
\* hydrated without error, without a provider call, and came back as given.
C13_Witness ==
    /\ K8sObjectCall /\ last.out.err = Nil /\ ~last.out.fatal
    /\ sBinaryData \in DOMAIN last.doc
    /\ last.doc[sBinaryData] = Map((kA :> Str(B64Encode(mAbsQ))))
    /\ last.out.data = last.doc
    /\ calls = last.pre.calls

(***************************************************************************)
(* The empty explicit reference                                            *)
(***************************************************************************)
\* C14: a document entry equal to "$SECRET:" is never resolved, with or
\* without a base path: hydrateKeyValue returns an error and no secret for
\* it without asking the provider, the hydration of the document ends
\* with an error, the entry is left as it was, and the provider is not
\* asked for the path the empty key normalises to.
C14_EmptyKey ==
    (last.op = "hydrateData" /\ ~last.k8s) =>
        \A k \in DOMAIN last.doc :
            last.doc[k] = Str(sSecretColon) =>
                /\ hydrateKeyValue(last.pre, k, sSecretColon).err # Nil
                /\ ~hydrateKeyValue(last.pre, k, sSecretColon).hit
                /\ hydrateKeyValue(last.pre, k, sSecretColon).st.calls
                       = last.pre.calls
                /\ last.out.err # Nil
                /\ last.out.data[k] = last.doc[k]
                /\ \A i \in 1..Len(NewCalls) :
                       NewCalls[i] # NormalizeKey(<<>>).path

\* Under --path=/p the entry a: "$SECRET:" was replaced by the value the
\* provider holds at /p, after a provider call for /p and without error.
C14_Witness ==
    /\ last.op = "hydrateData" /\ ~last.k8s
    /\ basePath = pBase
    /\ last.doc = (kA :> Str(sSecretColon))
    /\ last.out.err = Nil
    /\ last.out.data = (kA :> Str(vY))
    /\ NewCalls = <<pBase>>

(***************************************************************************)
(* Errors inside the field groups                                          *)
(***************************************************************************)
\* The error came out of a field group: a base64, decode, provider or
\* configuration failure, not a refused kind or metadata.
FieldError(err) == err # Nil /\ err.kind \notin {"kind", "metadata"}

\* C15: in Kubernetes mode on a ConfigMap or Secret the hydration always
\* returns to its caller, and every error that arises in a field group,
\* inside a nested structured file as well as on a plain value, comes
\* back as an error value whose outermost context names the field key.
C15_NestedErrorsReturned ==
    K8sObjectCall =>
        /\ ~last.out.fatal
        /\ FieldError(last.out.err) =>
               /\ last.out.err.wraps # <<>>
               /\ last.out.err.wraps[1].what \in {"k8sField", "decodeField"}
               /\ \E g \in {sData, sStringData} \cap DOMAIN last.doc :
                      IsMap(last.doc[g])
                          /\ last.out.err.wraps[1].key \in DOMAIN last.doc[g].m

\* A Secret whose stringData holds a TOML file naming a parameter the
\* provider fails for: the process was ended by log.Fatal with the
\* provider's error, which carries no field key.
C15_Witness ==
    /\ K8sObjectCall
    /\ sStringData \in DOMAIN last.doc
    /\ last.doc[sStringData] =
           Map((kA \o Dot \o fTOML :> Str(TOMLEncode((kA :> Str(mMissing))))))
    /\ last.out.fatal /\ exited
    /\ last.out.err.kind = "provider"
    /\ \A i \in 1..Len(last.out.err.wraps) :
           last.out.err.wraps[i].what \notin {"k8sField", "decodeField"}

(***************************************************************************)
(* Plain values of the field groups                                        *)
(***************************************************************************)
\* The key has no structured-format extension.
PlainKey(k) == TrimLeft(Ext(k), Dot) \notin StructuredFormats

\* The text a group value stands for: base64-decoded in an encoded group.
TextOf(v, encoded) == IF encoded THEN B64Decode(v.v).val ELSE v.v

\* A string of the data group that does not base64-decode.
Undecodable(v) == IsStr(v) /\ ~B64Decode(v.v).ok

\* The entry k is as hydration has to leave it: a reference holds the
\* resolved secret, encoded as the group is; anything else is as given.
EntryHydrated(in, out, k, encoded) ==
    IF IsStr(in[k]) /\ IsRef(TextOf(in[k], encoded))
    THEN LET n == NormalizeKey(RefKey(k, TextOf(in[k], encoded)))
         IN /\ n.ok /\ n.path \in DOMAIN secrets
            /\ out[k] = Str(IF encoded THEN B64Encode(secrets[n.path])
                            ELSE secrets[n.path])
    ELSE out[k] = in[k]

\* The groups of doc that are maps, each with whether it is base64-encoded.
GroupsOf(doc) ==
    {gr \in {<<sData, TRUE>>, <<sStringData, FALSE>>} :
         gr[1] \in DOMAIN doc /\ IsMap(doc[gr[1]])}

C17_Warning ==
    (last.op = "GetSecret" /\ basePath # <<>>) =>
        IF HasPrefix(last.key, Slash) /\ ~HasPrefix(last.key, basePath)
        THEN /\ warns = last.pre.warns + 1
             /\ LookedUp(last.pre, last.key, last.out.val, last.out.err)
        ELSE warns = last.pre.warns

\* Under --path=/p the absolute key /q was fetched from the provider as
\* given and no warning was written.
C17_Witness ==
    /\ last.op = "GetSecret" /\ basePath = pBase /\ last.key = pQ
    /\ last.out.err = Nil /\ last.out.val = vZ
    /\ calls = Append(last.pre.calls, pQ)
    /\ warns = last.pre.warns

(***************************************************************************)
(* What the Kubernetes adapter leaves alone                                *)
(***************************************************************************)
\* C18: in Kubernetes mode on a ConfigMap or Secret, kind, metadata and
\* every other top-level field come back as given, markers included; the
\* data and stringData maps keep their keys; and a manifest with neither
\* a data nor a stringData map comes back unchanged, with no error and no
\* provider call, whatever markers its other fields hold.
C18_K8sFrame ==
    K8sObjectCall =>
        /\ DOMAIN last.out.data = DOMAIN last.doc
        /\ \A k \in DOMAIN last.doc :
               IF <<k, k = sData>> \in GroupsOf(last.doc)
               THEN /\ IsMap(last.out.data[k])
                    /\ DOMAIN last.out.data[k].m = DOMAIN last.doc[k].m
               ELSE last.out.data[k] = last.doc[k]
        /\ GroupsOf(last.doc) = {} =>
               /\ last.out.data = last.doc
               /\ last.out.err = Nil /\ ~last.out.fatal
               /\ calls = last.pre.calls
               /\ secrets = last.pre.secrets

\* A ConfigMap with a marker in a top-level field, no metadata and no
\* field group came back unchanged but with the missing-metadata error.
C18_Witness ==
    /\ K8sObjectCall
    /\ last.doc = (sKind :> Str(sConfigMap)) @@ (kA :> Str(mAbsQ))
    /\ last.out.data = last.doc
    /\ last.out.err = Errorf("metadata", ToLower(sConfigMap))
    /\ calls = last.pre.calls

====
